---- MODULE Spec2Model ----
(***************************************************************************)
(* Code Atlas: the upload handler's Root Locator (findActualRoot) and      *)
(* Tree Builder (generateTree) over an extracted directory, and the Tree   *)
(* Reconciler (buildEnhancedTree) over the persisted records; the upload   *)
(* handler's request checks, Job row and background worker; the job status *)
(* endpoint.                                                               *)
(*                                                                         *)
(* A JavaScript string is a sequence of one-character strings, so that     *)
(* startsWith, extname, split, join, sort and localeCompare are computed   *)
(* character by character as the runtime computes them.                    *)
(***************************************************************************)
EXTENDS Integers, Sequences, FiniteSets, TLC

VARIABLES
    disk,         \* the extracted directory tree (never changes during a request)
    extractPath,  \* findActualRoot's parameter
    currentPath,  \* findActualRoot: let currentPath
    depth,        \* findActualRoot: let depth
    continues,    \* number of loop iterations of the current call that ended in `continue`
    pc,           \* position of the upload handler / of findActualRoot
    result,       \* value returned by the current findActualRoot call
    call,         \* 1: the handler's call; 2: a second call on the returned path
    firstResult,  \* value returned by call 1, kept when call 2 starts
    firstDepth,   \* depth at which call 1 returned
    sawError,     \* kinds of filesystem error met by the current call
    tree,         \* the TreeNode generateTree(actualRoot, actualRoot) returned
    db,           \* the persisted File (with functions) and Folder records
    response,     \* what the last GET /api/tree answered
    firstResponse, \* what the first GET /api/tree answered
    gets,         \* number of GET /api/tree requests answered
    request,      \* the upload request's form data
    jobs,         \* the rows of the Job table
    workers,      \* the background workers spawned: <<jobId, extractPath>>
    job,          \* the upload handler's const job: the row it created
    uploadResponse, \* what the upload handler answered
    statusResponse, \* what the last GET /api/ingest/[jobId]/status answered
    nodeResponse,   \* what the last GET /api/nodes/[path] answered
    statsResponse,  \* what the last GET /api/analysis/stats answered
    resultsResponse, \* what the last GET /api/analysis/results answered
    lineStart,      \* calculateLineComplexity: start
    lineEnd,        \* calculateLineComplexity: end
    lineComplexity, \* calculateLineComplexity: the value returned
    scored,         \* findActualRoot: the score of the directory it scored
    treeSet,        \* Home: the tree state is not null
    currentJobId,   \* Home: the currentJobId state, None for null
    isUploading,    \* Home: the isUploading state
    uploads,        \* uploads the user has started
    showResults,    \* Home: the showResults state
    homeDirty,      \* Home: a state update is waiting for its re-render
    treeLoads,      \* loadEnhancedTree calls waiting for GET /api/tree
    mounted,        \* JobStatus is in the page React has committed
    effectsDue,     \* the committed render's effect of JobStatus has not run yet
    isActive,       \* the current effect instance: let isActive
    pollInterval,   \* the current effect instance: pollInterval is set
    startPending,   \* the current effect instance: setTimeout(startPolling) is pending
    polls,          \* the current effect instance: the status requests in flight,
                    \* each NoResponse until the server has served it
    lateTimeouts,   \* pending setTimeout(startPolling) of instances cleaned up
    lateIntervals,  \* running intervals of instances cleaned up
    onCompleteCalls, \* how often onComplete has been called
    terminalSeen    \* a poll has been answered with completed or failed

vars == <<disk, extractPath, currentPath, depth, continues, pc, result, call,
          firstResult, firstDepth, sawError, tree, db, response,
          firstResponse, gets, request, jobs, workers, job, uploadResponse,
          statusResponse, nodeResponse, statsResponse, resultsResponse,
          lineStart, lineEnd,
          lineComplexity, scored, treeSet, currentJobId, isUploading,
          uploads, showResults, homeDirty, treeLoads,
          mounted, effectsDue, isActive, pollInterval, startPending, polls,
          lateTimeouts,
          lateIntervals, onCompleteCalls, terminalSeen>>

locatorVars == <<disk, extractPath, currentPath, depth, continues, pc, result,
                 call, firstResult, firstDepth, sawError, tree>>
reconcilerVars == <<db, response, firstResponse, gets>>
endpointVars == <<statusResponse, nodeResponse, statsResponse,
                  resultsResponse>>
classifierVars == <<lineStart, lineEnd, lineComplexity>>
scoreVars == <<scored>>
homeVars == <<treeSet, currentJobId, isUploading, uploads,
              showResults, homeDirty, treeLoads>>
effectVars == <<mounted, effectsDue, isActive, pollInterval, startPending,
                polls>>
clientVars == <<homeVars, effectVars, lateTimeouts, lateIntervals,
                onCompleteCalls, terminalSeen>>
jobVars == <<request, jobs, workers, job, uploadResponse, endpointVars,
             classifierVars, scoreVars, clientVars>>

None == "none"
\* no directory has been scored yet
NotScored == [done |-> FALSE, value |-> 0]

\* no page is open: no JobStatus component, no timer, no request in flight
ClientIdle ==
    /\ treeSet = FALSE
    /\ currentJobId = None
    /\ isUploading = FALSE
    /\ uploads = 0
    /\ showResults = FALSE
    /\ homeDirty = FALSE
    /\ treeLoads = 0
    /\ mounted = FALSE
    /\ effectsDue = FALSE
    /\ isActive = FALSE
    /\ pollInterval = FALSE
    /\ startPending = FALSE
    /\ polls = <<>>
    /\ lateTimeouts = 0
    /\ lateIntervals = 0
    /\ onCompleteCalls = 0
    /\ terminalSeen = FALSE

(***************************************************************************)
(* Strings                                                                 *)
(***************************************************************************)
Lower == <<"a","b","c","d","e","f","g","h","i","j","k","l","m",
           "n","o","p","q","r","s","t","u","v","w","x","y","z">>
Upper == <<"A","B","C","D","E","F","G","H","I","J","K","L","M",
           "N","O","P","Q","R","S","T","U","V","W","X","Y","Z">>
Digits == <<"0","1","2","3","4","5","6","7","8","9">>

InSeq(c, s) == \E i \in 1..Len(s) : s[i] = c
IndexOf(c, s) == CHOOSE i \in 1..Len(s) : s[i] = c

Includes(list, x) == \E i \in 1..Len(list) : list[i] = x

startsWith(s, p) == Len(s) >= Len(p) /\ SubSeq(s, 1, Len(p)) = p
endsWith(s, p) == Len(s) >= Len(p) /\ SubSeq(s, Len(s) - Len(p) + 1, Len(s)) = p

toLowerCaseChar(c) == IF InSeq(c, Upper) THEN Lower[IndexOf(c, Upper)] ELSE c
toLowerCase(s) == [i \in 1..Len(s) |-> toLowerCaseChar(s[i])]

\* String.prototype.split('/'): "" gives [""], "a//b" gives ["a","","b"].
RECURSIVE split(_)
split(s) ==
    IF \A i \in 1..Len(s) : s[i] # "/" THEN <<s>>
    ELSE LET k == CHOOSE i \in 1..Len(s) :
                      s[i] = "/" /\ \A j \in 1..(i-1) : s[j] # "/"
         IN <<SubSeq(s, 1, k-1)>> \o split(SubSeq(s, k+1, Len(s)))

\* Array.prototype.join('/')
RECURSIVE joinSlash(_)
joinSlash(segs) ==
    IF segs = <<>> THEN <<>>
    ELSE IF Len(segs) = 1 THEN segs[1]
    ELSE segs[1] \o <<"/">> \o joinSlash(Tail(segs))

NonEmpty(seg) == Len(seg) > 0
NotDot(seg) == seg # <<".">>

\* path.join(a, b) on POSIX: a + '/' + b, normalised (empty and '.' segments
\* dropped; no entry is named '..', whose handling is not modelled).
pathJoin(a, b) ==
    LET raw == a \o <<"/">> \o b
        segs == SelectSeq(SelectSeq(split(raw), NonEmpty), NotDot)
    IN IF startsWith(raw, <<"/">>) THEN <<"/">> \o joinSlash(segs)
       ELSE joinSlash(segs)

\* path.basename(p): the part after the last '/'.
basename(p) == LET segs == SelectSeq(split(p), NonEmpty)
               IN IF segs = <<>> THEN <<>> ELSE segs[Len(segs)]

\* path.relative(from, to) for absolute normalised paths: drop the common
\* leading segments, one '..' per remaining segment of from, then the rest of to.
RECURSIVE CommonPrefixLen(_, _)
CommonPrefixLen(a, b) ==
    IF a = <<>> \/ b = <<>> \/ Head(a) # Head(b) THEN 0
    ELSE 1 + CommonPrefixLen(Tail(a), Tail(b))

pathRelative(from, to) ==
    LET f == SelectSeq(split(from), NonEmpty)
        t == SelectSeq(split(to), NonEmpty)
        n == CommonPrefixLen(f, t)
        ups == [i \in 1..(Len(f) - n) |-> <<".", ".">>]
    IN joinSlash(ups \o SubSeq(t, n + 1, Len(t)))

\* path.extname(name): from the last '.' to the end; '' when there is no '.'
\* or the only '.' is the first character (a dotfile), and for '..'.
LastDot(s) == IF \A i \in 1..Len(s) : s[i] # "." THEN 0
              ELSE CHOOSE i \in 1..Len(s) :
                       s[i] = "." /\ \A j \in (i+1)..Len(s) : s[j] # "."
extname(s) ==
    LET b == basename(s)
        d == LastDot(b)
    IN IF d <= 1 \/ b = <<".", ".">> THEN <<>> ELSE SubSeq(b, d, Len(b))

(***************************************************************************)
(* Names used by the code and by the modelled archives                     *)
(***************************************************************************)
S_a_ts == <<"a", ".", "t", "s">>
S_c_py == <<"c", ".", "p", "y">>
S_package_json == <<"p", "a", "c", "k", "a", "g", "e", ".", "j", "s", "o", "n">>
S_README_md == <<"R", "E", "A", "D", "M", "E", ".", "m", "d">>
S_src == <<"s", "r", "c">>
S_b_js == <<"b", ".", "j", "s">>
S_lib == <<"l", "i", "b">>
S_docs == <<"d", "o", "c", "s">>
S_dist == <<"d", "i", "s", "t">>
S_x_js == <<"x", ".", "j", "s">>
S_build == <<"b", "u", "i", "l", "d">>
S_node_modules == <<"n", "o", "d", "e", "_", "m", "o", "d", "u", "l", "e", "s">>
S_dot_git == <<".", "g", "i", "t">>
S_HEAD == <<"H", "E", "A", "D">>
S_MACOSX == <<"_", "_", "M", "A", "C", "O", "S", "X">>
S_MACOSX_old == <<"_", "_", "M", "A", "C", "O", "S", "X", "_", "o", "l", "d">>
S_Thumbs_db == <<"T", "h", "u", "m", "b", "s", ".", "d", "b">>
S_tsconfig_json == <<"t", "s", "c", "o", "n", "f", "i", "g", ".", "j", "s", "o", "n">>
S_pyproject_toml == <<"p", "y", "p", "r", "o", "j", "e", "c", "t", ".", "t", "o", "m", "l">>
S_Cargo_toml == <<"C", "a", "r", "g", "o", ".", "t", "o", "m", "l">>
S_go_mod == <<"g", "o", ".", "m", "o", "d">>
S_pom_xml == <<"p", "o", "m", ".", "x", "m", "l">>
S_main_ts == <<"m", "a", "i", "n", ".", "t", "s">>
S_index_ts == <<"i", "n", "d", "e", "x", ".", "t", "s">>
S_app == <<"a", "p", "p">>
S_components == <<"c", "o", "m", "p", "o", "n", "e", "n", "t", "s">>
S_pages == <<"p", "a", "g", "e", "s">>
S_api == <<"a", "p", "i">>
S_root == <<"r", "o", "o", "t">>
S_w == <<"w">>
S_x == <<"x">>
S_A_TS == <<"A", ".", "T", "S">>
S_dot_e_ts == <<".", "e", ".", "t", "s">>
S_MACOSX_a_ts == <<"_", "_", "M", "A", "C", "O", "S", "X", "_", "a", ".", "t", "s">>
S_DS_Store == <<".", "D", "S", "_", "S", "t", "o", "r", "e">>

(***************************************************************************)
(* The extracted archive on disk                                           *)
(*                                                                         *)
(* A node is [name, kind, statOk, readOk, entries]; entries is the order   *)
(* readdir lists a directory in. statOk = FALSE: stat of the entry throws  *)
(* (a broken symlink); readOk = FALSE: readdir of the directory throws (no *)
(* read permission).                                                       *)
(***************************************************************************)
FileE(name) == [name |-> name, kind |-> "file", statOk |-> TRUE,
                readOk |-> TRUE, entries |-> <<>>]
DirE(name, entries) == [name |-> name, kind |-> "dir", statOk |-> TRUE,
                        readOk |-> TRUE, entries |-> entries]


\* The entries an archive's innermost directory is drawn from (listed in this
\* order, or reversed).
Menu == <<
    FileE(S_package_json),
    DirE(S_node_modules, <<DirE(S_lib, <<>>)>>),
    FileE(S_README_md),
    DirE(S_docs, <<FileE(S_README_md)>>),
    FileE(S_c_py),
    DirE(S_dist, <<FileE(S_x_js)>>),
    DirE(S_src, <<FileE(S_b_js)>>),
    DirE(S_build, <<>>),
    FileE(S_a_ts),
    DirE(S_lib, <<FileE(S_c_py)>>),
    DirE(S_dot_git, <<FileE(S_HEAD)>>),
    FileE(S_MACOSX_old) >>

MaxEntries == 2    \* entries of the innermost directory
MaxWrap == 11      \* wrapper directories around it
MaxContinues == 12 \* loop iterations followed before the model stops counting

RECURSIVE SetToSeq(_)
SetToSeq(S) == IF S = {} THEN <<>>
               ELSE LET m == CHOOSE x \in S : \A y \in S : x <= y
                    IN <<m>> \o SetToSeq(S \ {m})

Reverse(s) == [i \in 1..Len(s) |-> s[Len(s) + 1 - i]]

\* node_modules + a.ts + .git: the directory of the Tree Builder's exclusion scenario
ScenarioPicks == {{2, 9, 11}}

Picks == {P \in SUBSET (1..Len(Menu)) : Cardinality(P) <= MaxEntries}
             \cup ScenarioPicks

\* under many wrappers: package.json + src (a project), nothing, dist + build,
\* docs alone
DeepPicks == {{1, 7}, {}, {6, 8}, {4}}

Payload(P, rev) ==
    LET idx == IF rev THEN Reverse(SetToSeq(P)) ELSE SetToSeq(P)
    IN [i \in 1..Len(idx) |-> Menu[idx[i]]]

\* what an archiver leaves next to the wrapped directory
WrapperExtras(dressed) ==
    IF dressed
    THEN <<DirE(S_MACOSX, <<FileE(S_DS_Store)>>), FileE(S_Thumbs_db),
           FileE(S_README_md)>>
    ELSE <<>>

\* n wrappers, each holding the next directory (and the extras), around the payload
RECURSIVE Chain(_, _, _)
Chain(n, payload, extras) ==
    IF n = 0 THEN payload
    ELSE extras \o <<DirE(S_w, Chain(n - 1, payload, extras))>>

Archive(n, P, rev, dressed) ==
    DirE(S_x, Chain(n, Payload(P, rev), WrapperExtras(dressed)))

\* a node's address is the sequence of entry indexes leading to it
RECURSIVE Addresses(_)
Addresses(node) ==
    {<<>>} \cup UNION {{<<i>> \o a : a \in Addresses(node.entries[i])} :
                          i \in 1..Len(node.entries)}

RECURSIVE NodeAt(_, _)
NodeAt(node, addr) ==
    IF addr = <<>> THEN node ELSE NodeAt(node.entries[Head(addr)], Tail(addr))

RECURSIVE Break(_, _, _)
Break(node, addr, how) ==
    IF addr = <<>> THEN [node EXCEPT ![how] = FALSE]
    ELSE [node EXCEPT !.entries =
             [@ EXCEPT ![Head(addr)] = Break(@, Tail(addr), how)]]

\* A fault is <<>> (none) or <<"statOk" | "readOk", address>>: at most one per
\* archive, in the innermost directory, the wrapper around it, or below.
Faults(root, n) ==
    LET sites == {b \in Addresses(root) :
                     /\ Len(b) >= n - 1
                     /\ \A k \in 1..Len(b) :
                            ~startsWith(NodeAt(root, SubSeq(b, 1, k)).name, <<".">>)
                            /\ ~startsWith(NodeAt(root, SubSeq(b, 1, k)).name, S_MACOSX)}
    IN {<<>>} \cup {<<"statOk", a>> : a \in sites}
              \cup {<<"readOk", a>> : a \in {b \in sites : NodeAt(root, b).kind = "dir"}}

Faulty(root, fault) ==
    IF fault = <<>> THEN root ELSE Break(root, fault[2], fault[1])

\* The archives of the model: any payload under at most one wrapper, a few
\* payloads under deeper chains; faults are injected into archives whose
\* wrappers are dressed and whose payload is listed in Menu order.
IsArchive(d) ==
    \E n \in 0..MaxWrap, rev \in BOOLEAN, dressed \in BOOLEAN :
        \E P \in IF n <= 1 THEN Picks ELSE DeepPicks :
            /\ n = 0 => dressed
            /\ Cardinality(P) <= 1 => ~rev
            /\ \E f \in Faults(Archive(n, P, rev, dressed), n) :
                   /\ f # <<>> => (dressed /\ ~rev)
                   /\ d = Faulty(Archive(n, P, rev, dressed), f)

\* the absolute path of the extraction directory: /x
ExtractDir == <<"/">> \o S_x

(***************************************************************************)
(* fs/promises: stat and readdir                                           *)
(***************************************************************************)
NoNode == [name |-> <<>>, kind |-> "absent", statOk |-> FALSE,
           readOk |-> FALSE, entries |-> <<>>]

RECURSIVE Walk(_, _)
Walk(node, segs) ==
    IF segs = <<>> THEN node
    ELSE IF node.kind # "dir" \/ ~node.statOk THEN NoNode
    ELSE LET hits == SelectSeq(node.entries, LAMBDA e : e.name = Head(segs))
         IN IF hits = <<>> THEN NoNode ELSE Walk(hits[1], Tail(segs))

Resolve(p) ==
    LET segs == SelectSeq(split(p), NonEmpty)
    IN IF segs = <<>> \/ Head(segs) # disk.name THEN NoNode
       ELSE Walk(disk, Tail(segs))

\* stat(p): [ok |-> FALSE] stands for the rejected promise
stat(p) ==
    LET n == Resolve(p)
    IN IF n.statOk
       THEN [ok |-> TRUE, isDirectory |-> n.kind = "dir", isFile |-> n.kind = "file"]
       ELSE [ok |-> FALSE, isDirectory |-> FALSE, isFile |-> FALSE]

\* readdir(p): the entry names in listing order, or a rejected promise
readdir(p) ==
    LET n == Resolve(p)
    IN IF n.statOk /\ n.kind = "dir" /\ n.readOk
       THEN [ok |-> TRUE, entries |-> [i \in 1..Len(n.entries) |-> n.entries[i].name]]
       ELSE [ok |-> FALSE, entries |-> <<>>]


(***************************************************************************)
(* Array.prototype.sort(compare): a stable sort. Element i goes after the  *)
(* elements that compare below it and the equal ones listed before it.     *)
(***************************************************************************)
stableSort(s, cmp(_, _)) ==
    LET pos == [i \in 1..Len(s) |->
                   1 + Cardinality({j \in 1..Len(s) :
                           \/ cmp(s[j], s[i]) < 0
                           \/ cmp(s[j], s[i]) = 0 /\ j < i})]
    IN [k \in 1..Len(s) |-> s[CHOOSE i \in 1..Len(s) : pos[i] = k]]

\* String.prototype.localeCompare under the root collation: first by the
\* letters regardless of case (punctuation < symbols < digits < letters), then
\* lower case before upper case. "wrench" stands for the one character U+1F527.
CollationOrder ==
    <<" ", "_", "-", ".", "(", ")", "/", "#", "wrench">> \o Digits \o Lower

Alphabet == {CollationOrder[i] : i \in 1..Len(CollationOrder)}
                \cup {Upper[i] : i \in 1..Len(Upper)}

PrimaryWeight == [c \in Alphabet |-> IndexOf(toLowerCaseChar(c), CollationOrder)]
CaseWeight == [c \in Alphabet |-> IF InSeq(c, Upper) THEN 1 ELSE 0]

\* compare a and b character by character from position i on, by weight w; a
\* proper prefix comes first
RECURSIVE CompareFrom(_, _, _, _)
CompareFrom(a, b, w, i) ==
    IF i > Len(a) /\ i > Len(b) THEN 0
    ELSE IF i > Len(a) THEN -1
    ELSE IF i > Len(b) THEN 1
    ELSE IF w[a[i]] < w[b[i]] THEN -1
    ELSE IF w[a[i]] > w[b[i]] THEN 1
    ELSE CompareFrom(a, b, w, i + 1)

CompareBy(a, b, w) == CompareFrom(a, b, w, 1)

localeCompare(a, b) ==
    LET primary == CompareBy(a, b, PrimaryWeight)
    IN IF primary # 0 THEN primary ELSE CompareBy(a, b, CaseWeight)

(***************************************************************************)
(* findActualRoot (the Root Locator)                                       *)
(***************************************************************************)
\* const maxDepth = 10; // Increased depth for nested projects
maxDepth == 10
\* if (score >= 3)
scoreThreshold == 3

oneLevelOnly(d) == d = 0
\* while (depth < maxDepth)
withinDepth(d) == d < maxDepth

sourceExtensions ==
    << <<".", "j", "s">>, <<".", "t", "s">>, <<".", "t", "s", "x">>,
       <<".", "j", "s", "x">>, <<".", "p", "y">>, <<".", "j", "a", "v", "a">>,
       <<".", "g", "o">>, <<".", "r", "s">>, <<".", "c">>,
       <<".", "c", "p", "p">>, <<".", "h">> >>
statedIndicators ==
    << S_package_json, S_tsconfig_json, S_pyproject_toml, S_Cargo_toml,
       S_go_mod, S_pom_xml, S_src >>
projectIndicators ==
    << S_package_json, S_tsconfig_json, S_pyproject_toml, S_Cargo_toml,
       S_go_mod, S_pom_xml, S_main_ts, S_index_ts, S_src >>
srcExtensions ==
    << <<".", "j", "s">>, <<".", "t", "s">>, <<".", "t", "s", "x">>,
       <<".", "j", "s", "x">> >>
projectDirNames == << S_src, S_app, S_lib, S_components, S_pages, S_api >>

\* entries.filter(entry => !startsWith('.') && !startsWith('__MACOSX') && entry !== 'Thumbs.db')
IsValidEntry(entry) ==
    /\ ~startsWith(entry, <<".">>)
    /\ ~startsWith(entry, S_MACOSX)
    /\ entry # S_Thumbs_db
IsSourceFile(entry) == Includes(sourceExtensions, toLowerCase(extname(entry)))
IsProjectFile(entry) == Includes(projectIndicators, entry)
IsTsFile(f) == endsWith(f, <<".", "t", "s">>) \/ endsWith(f, <<".", "t", "s", "x">>)
IsSrcSourceFile(entry) == Includes(srcExtensions, toLowerCase(extname(entry)))
IsProjectDirName(dir) == Includes(projectDirNames, toLowerCase(dir))
LooksLikeProject(dir) ==
    /\ ~startsWith(dir, <<".">>)
    /\ dir # S_node_modules
    /\ dir # S_dist
    /\ dir # S_build

validEntriesOf(entries) == SelectSeq(entries, IsValidEntry)
sourceFilesOf(valid) == SelectSeq(valid, IsSourceFile)
projectFilesOf(valid) == SelectSeq(valid, IsProjectFile)

\* the try block around stat(srcPath) and readdir(srcPath): a rejection of
\* either is caught and only logged
srcBonus(cur, valid) ==
    IF ~Includes(valid, S_src) THEN 0
    ELSE LET srcPath == pathJoin(cur, S_src)
             srcStats == stat(srcPath)
             srcContents == readdir(srcPath)
         IN 5 + (IF srcStats.ok /\ srcStats.isDirectory /\ srcContents.ok
                 THEN 2 * Len(SelectSeq(srcContents.entries, IsSrcSourceFile))
                 ELSE 0)

rootScore(cur, valid) ==
    LET sourceFiles == sourceFilesOf(valid)
    IN Len(sourceFiles) * 2 + Len(projectFilesOf(valid))
       + Len(SelectSeq(sourceFiles, IsTsFile)) * 3
       + srcBonus(cur, valid)

StatsAsDirectory(p) == LET stats == stat(p) IN stats.ok /\ stats.isDirectory

\* the for loop that stats every valid entry; a rejected stat is caught and logged
directoriesOf(cur, valid) ==
    SelectSeq(valid, LAMBDA entry : StatsAsDirectory(pathJoin(cur, entry)))

goodScoreDepthAware(score) == score >= scoreThreshold /\ depth > 0
goodScore(score) == score >= scoreThreshold

\* One pass through the body of the while loop at `cur`.
Iteration(cur) ==
    LET listing == readdir(cur)
        valid == validEntriesOf(listing.entries)
        sourceFiles == sourceFilesOf(valid)
        directories == directoriesOf(cur, valid)
        projectDirs == SelectSeq(directories, IsProjectDirName)
        candidates == SelectSeq(directories, LooksLikeProject)
    IN IF ~listing.ok THEN [kind |-> "throw", path |-> cur]
       ELSE IF goodScore(rootScore(cur, valid)) THEN [kind |-> "return", path |-> cur]
       ELSE IF Len(directories) = 1 /\ Len(sourceFiles) = 0
            THEN [kind |-> "single", path |-> pathJoin(cur, directories[1])]
       ELSE IF Len(directories) > 1 /\ Len(sourceFiles) = 0
            THEN IF projectDirs # <<>>
                 THEN [kind |-> "projectDir", path |-> pathJoin(cur, projectDirs[1])]
                 ELSE IF candidates # <<>>
                 THEN [kind |-> "firstDir", path |-> pathJoin(cur, candidates[1])]
                 ELSE [kind |-> "noCandidate", path |-> cur]
       ELSE [kind |-> "break", path |-> cur]

\* the filesystem errors one pass at `cur` meets
IterationErrors(cur) ==
    LET listing == readdir(cur)
        valid == validEntriesOf(listing.entries)
        srcPath == pathJoin(cur, S_src)
    IN IF ~listing.ok THEN {"readdir"}
       ELSE (IF Includes(valid, S_src)
                /\ (~stat(srcPath).ok \/ (stat(srcPath).isDirectory /\ ~readdir(srcPath).ok))
             THEN {"src"} ELSE {})
            \cup
            (IF ~goodScore(rootScore(cur, valid))
                /\ \E i \in 1..Len(valid) : ~stat(pathJoin(cur, valid[i])).ok
             THEN {"stat"} ELSE {})

catchReturnsCurrentPath == [returns |-> TRUE, value |-> currentPath]
\* the outer try/catch: catch (error) { return extractPath; }
outerCatch == [returns |-> TRUE, value |-> extractPath]

Returns(value) ==
    /\ result' = value
    /\ pc' = IF call = 1 THEN "located" ELSE "relocated"
    /\ UNCHANGED <<disk, extractPath, currentPath, depth, continues, call,
                   firstResult, firstDepth, tree>>
    /\ UNCHANGED reconcilerVars
    /\ UNCHANGED jobVars

Continues(next, d) ==
    /\ currentPath' = next
    /\ depth' = d
    /\ continues' = continues + 1
    /\ UNCHANGED <<disk, extractPath, pc, result, call, firstResult,
                   firstDepth, tree>>
    /\ UNCHANGED reconcilerVars
    /\ UNCHANGED jobVars

\* while (depth < maxDepth) fails: return currentPath
LoopExit ==
    /\ pc = "locating" /\ ~withinDepth(depth)
    /\ Returns(currentPath)
    /\ UNCHANGED sawError

\* readdir(currentPath) rejects: the outer catch returns
ListingFails ==
    /\ pc = "locating" /\ withinDepth(depth)
    /\ Iteration(currentPath).kind = "throw"
    /\ sawError' = sawError \cup IterationErrors(currentPath)
    /\ IF outerCatch.returns
       THEN Returns(outerCatch.value)
       ELSE /\ pc' = "threw"
            /\ UNCHANGED <<disk, extractPath, currentPath, depth, continues,
                           result, call, firstResult, firstDepth, tree>>
            /\ UNCHANGED reconcilerVars
            /\ UNCHANGED jobVars

\* score >= 3: return currentPath
GoodRoot ==
    /\ pc = "locating" /\ withinDepth(depth)
    /\ Iteration(currentPath).kind = "return"
    /\ sawError' = sawError \cup IterationErrors(currentPath)
    /\ Returns(currentPath)

\* exactly one directory and no source files
DescendSingle ==
    /\ pc = "locating" /\ withinDepth(depth)
    /\ Iteration(currentPath).kind = "single"
    /\ sawError' = sawError \cup IterationErrors(currentPath)
    /\ Continues(Iteration(currentPath).path, depth + 1)

\* several directories, one with a common project directory name
DescendProjectDir ==
    /\ pc = "locating" /\ withinDepth(depth)
    /\ Iteration(currentPath).kind = "projectDir"
    /\ sawError' = sawError \cup IterationErrors(currentPath)
    /\ Continues(Iteration(currentPath).path, depth + 1)

\* several directories: the first that "looks like a project"
DescendFirstDir ==
    /\ pc = "locating" /\ withinDepth(depth)
    /\ Iteration(currentPath).kind = "firstDir"
    /\ sawError' = sawError \cup IterationErrors(currentPath)
    /\ Continues(Iteration(currentPath).path, depth + 1)

\* several directories, none of which the for loop accepts: `continue` with
\* currentPath and depth as they were
ContinueUnchanged ==
    /\ pc = "locating" /\ withinDepth(depth)
    /\ Iteration(currentPath).kind = "noCandidate"
    /\ continues < MaxContinues
    /\ sawError' = sawError \cup IterationErrors(currentPath)
    /\ Continues(currentPath, depth)

\* break: return currentPath
StopHere ==
    /\ pc = "locating" /\ withinDepth(depth)
    /\ Iteration(currentPath).kind = "break"
    /\ sawError' = sawError \cup IterationErrors(currentPath)
    /\ Returns(currentPath)

\* findActualRoot called on the path the first call returned
Relocate ==
    /\ pc = "located"
    /\ call = 1
    /\ call' = 2
    /\ firstResult' = result
    /\ firstDepth' = depth
    /\ extractPath' = result
    /\ currentPath' = result
    /\ depth' = 0
    /\ continues' = 0
    /\ sawError' = {}
    /\ result' = None
    /\ pc' = "locating"
    /\ UNCHANGED <<disk, tree>>
    /\ UNCHANGED reconcilerVars
    /\ UNCHANGED jobVars


(***************************************************************************)
(* generateTree (the Tree Builder)                                         *)
(***************************************************************************)
Thrown == [thrown |-> TRUE]

\* uuidv4(): a fresh identifier for every node built
uuidv4(seed) == <<"uuid", seed>>

IsTreeEntryKeepingDist(entry) ==
    /\ ~startsWith(entry, <<".">>)
    /\ ~startsWith(entry, S_MACOSX)
    /\ entry # S_Thumbs_db
    /\ entry # S_node_modules
    /\ entry # S_dot_git
    /\ entry # S_build

\* entries.filter(...) of generateTree
IsTreeEntry(entry) ==
    /\ ~startsWith(entry, <<".">>)
    /\ ~startsWith(entry, S_MACOSX)
    /\ entry # S_Thumbs_db
    /\ entry # S_node_modules
    /\ entry # S_dot_git
    /\ entry # S_dist
    /\ entry # S_build

typeFirst(a, b) == IF a.type # b.type THEN (IF a.type = "file" THEN -1 ELSE 1)
                   ELSE localeCompare(a.name, b.name)
\* children.sort((a, b) => a.type !== b.type ? (a.type === 'dir' ? -1 : 1)
\*                                             : a.name.localeCompare(b.name))
dirsFirst(a, b) == IF a.type # b.type THEN (IF a.type = "dir" THEN -1 ELSE 1)
                   ELSE localeCompare(a.name, b.name)

relativeToParent(basePath, dirPath) == basename(dirPath)
\* const relativePath = path.relative(basePath, dirPath)
relativePathOf(basePath, dirPath) == pathRelative(basePath, dirPath)

NotThrown(node) == node # Thrown

rejectsOnListing(stats, listing) ==
    ~stats.ok \/ (stats.isDirectory /\ ~listing.ok)
\* what makes generateTree reject: only its stat, which no try block covers; a
\* rejected readdir is caught and logged
rejects(stats, listing) == ~stats.ok

RECURSIVE generateTree(_, _)
generateTree(dirPath, basePath) ==
    LET stats == stat(dirPath)
        relativePath == relativePathOf(basePath, dirPath)
        name == IF basename(dirPath) # <<>> THEN basename(dirPath) ELSE S_root
        listing == readdir(dirPath)
        \* a rejected readdir is caught: the directory keeps no children
        validEntries == IF listing.ok THEN SelectSeq(listing.entries, IsTreeEntry)
                        ELSE <<>>
        \* a child whose generateTree rejects is skipped
        built == [i \in 1..Len(validEntries) |->
                     generateTree(pathJoin(dirPath, validEntries[i]), basePath)]
        children == SelectSeq(built, NotThrown)
    IN IF rejects(stats, listing) THEN Thrown
       ELSE IF stats.isFile
       THEN [id |-> uuidv4(dirPath), name |-> name, type |-> "file",
             path |-> relativePath]
       ELSE [id |-> uuidv4(dirPath), name |-> name, type |-> "dir",
             path |-> relativePath,
             children |-> stableSort(children, dirsFirst)]

(***************************************************************************)
(* POST: the upload handler                                                *)
(***************************************************************************)
\* NextResponse.json(body, { status }); status 200 when none is given
json(status, body) == [status |-> status, body |-> body]
NoResponse == [status |-> 0]

BadRequest(error) == json(400, [success |-> FALSE, error |-> error])
\* the handler's outer catch
InternalError == json(500, [success |-> FALSE, error |-> "Internal server error"])

\* 25 * 1024 * 1024
sizeLimit == 25 * 1024 * 1024

tooLargeFromLimit(file) == file.size >= sizeLimit
neverTooLarge(file) == FALSE
\* file.size > 25 * 1024 * 1024
tooLarge(file) == file.size > sizeLimit

SmallUpload == 1024    \* bytes of an upload far below the limit

\* formData.get('file'): absent, or a file of some size that AdmZip can or
\* cannot extract
NoFileGiven == [present |-> FALSE, size |-> 0, extractable |-> FALSE]
Requests ==
    {NoFileGiven} \cup
    {[present |-> TRUE, size |-> n, extractable |-> b] :
        n \in {SmallUpload, sizeLimit, sizeLimit + 1}, b \in BOOLEAN}

Accepted(file) == file.present /\ ~tooLarge(file) /\ file.extractable

\* the positions at which the handler has answered
AnsweredAt ==
    {"rejected", "failed", "responded", "writeFailed", "createFailed",
     "launchFailed", "unlinkFailed"}

Answers(answer, at) ==
    /\ uploadResponse' = answer
    /\ pc' = at
    /\ UNCHANGED <<disk, extractPath, currentPath, depth, continues, result,
                   call, firstResult, firstDepth, sawError, tree>>
    /\ UNCHANGED reconcilerVars
    /\ UNCHANGED <<request, jobs, workers, job, endpointVars, classifierVars, scoreVars, clientVars>>

\* if (!file) return 400 'No file provided'
NoFile ==
    /\ pc = "received"
    /\ ~request.present
    /\ Answers(BadRequest("No file provided"), "rejected")

\* if (file.size > 25 * 1024 * 1024) return 400 'File too large (max 25MB)'
TooLarge ==
    /\ pc = "received"
    /\ request.present
    /\ tooLarge(request)
    /\ Answers(BadRequest("File too large (max 25MB)"), "rejected")

\* await writeFile(tempFilePath, buffer) rejects: the inner catch rethrows to
\* the outer catch
WriteFails ==
    /\ pc = "received"
    /\ request.present
    /\ ~tooLarge(request)
    /\ Answers(InternalError, "writeFailed")

\* new AdmZip(tempFilePath) or zip.extractAllTo throws: the inner catch
\* unlinks the temporary file and rethrows to the outer catch
ExtractFails ==
    /\ pc = "received"
    /\ request.present
    /\ ~tooLarge(request)
    /\ ~request.extractable
    /\ Answers(InternalError, "failed")

\* zip.extractAllTo(extractPath, true), then findActualRoot(extractPath)
Extract ==
    /\ pc = "received"
    /\ request.present
    /\ ~tooLarge(request)
    /\ request.extractable
    /\ pc' = "locating"
    /\ UNCHANGED <<disk, extractPath, currentPath, depth, continues, result,
                   call, firstResult, firstDepth, sawError, tree>>
    /\ UNCHANGED reconcilerVars
    /\ UNCHANGED jobVars

\* const tree = await generateTree(actualRoot, actualRoot); a rejection
\* reaches the handler's outer catch (500)
BuildTree ==
    /\ pc = "located"
    /\ call = 1
    /\ LET built == generateTree(result, result)
       IN /\ tree' = built
          /\ pc' = IF built = Thrown THEN "failed" ELSE "treeBuilt"
          /\ uploadResponse' = IF built = Thrown THEN InternalError
                                ELSE uploadResponse
    /\ UNCHANGED <<disk, extractPath, currentPath, depth, continues, result,
                   call, firstResult, firstDepth, sawError>>
    /\ UNCHANGED reconcilerVars
    /\ UNCHANGED <<request, jobs, workers, job, endpointVars, classifierVars, scoreVars, clientVars>>

\* @default(cuid()): an id no row of the table has
cuid(rows) == <<"job", Cardinality(rows) + 1>>

createdProcessing == "processing"
\* data of prisma.job.create: status: 'pending'
createdStatus == "pending"
jobData(actualRoot) ==
    [status |-> createdStatus,
     message |-> "Job created, waiting to start processing...",
     extractPath |-> actualRoot]

\* const job = await prisma.job.create({ data })
CreateJob ==
    /\ pc = "treeBuilt"
    /\ LET row == [id |-> cuid(jobs)] @@ jobData(result)
       IN /\ jobs' = jobs \cup {row}
          /\ job' = row
    /\ pc' = "jobCreated"
    /\ UNCHANGED <<disk, extractPath, currentPath, depth, continues, result,
                   call, firstResult, firstDepth, sawError, tree>>
    /\ UNCHANGED reconcilerVars
    /\ UNCHANGED <<request, workers, uploadResponse, endpointVars, classifierVars, scoreVars, clientVars>>

\* prisma.job.create rejects: no row is written; the inner catch rethrows to
\* the outer catch
CreateJobFails ==
    /\ pc = "treeBuilt"
    /\ Answers(InternalError, "createFailed")

launchOnExtractPath(jobId, workerRoot) == [jobId |-> jobId, extractPath |-> extractPath]
\* spawn(tsxPath, [workerPath, jobId, extractPath], { detached: true })
launchIngestWorker(jobId, workerRoot) == [jobId |-> jobId, extractPath |-> workerRoot]

\* launchIngestWorker(job.id, actualRoot)
LaunchWorker ==
    /\ pc = "jobCreated"
    /\ workers' = workers \cup {launchIngestWorker(job.id, result)}
    /\ pc' = "launched"
    /\ UNCHANGED <<disk, extractPath, currentPath, depth, continues, result,
                   call, firstResult, firstDepth, sawError, tree>>
    /\ UNCHANGED reconcilerVars
    /\ UNCHANGED <<request, jobs, job, uploadResponse, endpointVars, classifierVars, scoreVars, clientVars>>

\* launchIngestWorker throws (process.cwd() or spawn throws): no worker runs,
\* the row prisma.job.create wrote stays; the inner catch rethrows to the
\* outer catch
LaunchWorkerFails ==
    /\ pc = "jobCreated"
    /\ Answers(InternalError, "launchFailed")

\* await unlink(tempFilePath) rejects after the worker was spawned: the inner
\* catch tries unlink again, swallows its failure and rethrows to the outer
\* catch
UnlinkFails ==
    /\ pc = "launched"
    /\ Answers(InternalError, "unlinkFailed")

\* await unlink(tempFilePath); return NextResponse.json({ success: true, ... })
Respond ==
    /\ pc = "launched"
    /\ Answers(json(200, [success |-> TRUE, tree |-> tree, jobId |-> job.id,
                          message |-> "File uploaded and processing started"]),
               "responded")

(***************************************************************************)
(* The store: File rows with their Function rows, and Folder rows          *)
(***************************************************************************)
S_Project_Root == <<"P", "r", "o", "j", "e", "c", "t", " ", "R", "o", "o", "t">>
S_folder_ == <<"f", "o", "l", "d", "e", "r", "-">>
S_file_ == <<"f", "i", "l", "e", "-">>
S_function_ == <<"f", "u", "n", "c", "t", "i", "o", "n", "-">>
S_dir_ == <<"d", "i", "r", "-">>
P_src_a_ts == <<"s", "r", "c", "/", "a", ".", "t", "s">>
P_src_b_ts == <<"s", "r", "c", "/", "b", ".", "t", "s">>
P_README_md == <<"R", "E", "A", "D", "M", "E", ".", "m", "d">>
P_src_app_api_c_ts == <<"s", "r", "c", "/", "a", "p", "p", "/", "a", "p", "i", "/", "c", ".", "t", "s">>
P_docs == <<"d", "o", "c", "s">>
P_src == <<"s", "r", "c">>
P_src_app == <<"s", "r", "c", "/", "a", "p", "p">>

\* model Function: unique on (fileId, name, start)
S_complexity == <<"c", "o", "m", "p", "l", "e", "x", "i", "t", "y">>
\* summary String?: null is a value no string equals (its one element is not
\* a character)
Null == <<"null">>

\* model Function: start, end and the optional summary
FunctionRecord(id, name, start, end, summary) ==
    [id |-> id, name |-> name, start |-> start, end |-> end,
     summary |-> summary]
\* model File: path unique; functions is the set of its Function rows
FileRecord(id, path, functions) ==
    [id |-> id, path |-> path, functions |-> functions]
\* model Folder: path unique
FolderRecord(id, path) == [id |-> id, path |-> path]

\* the rows the modelled snapshots are drawn from; src/a.ts holds two functions
\* named f, which the unique index on (fileId, name, start) allows; docs is
\* the path of a File row and of a Folder row. The summaries: 'complexity 12',
\* 'Complexity: 7', 'Adds' and null.
FileUniverse == {
    FileRecord(<<"f", "1">>, P_src_a_ts,
               {FunctionRecord(<<"n", "1">>, <<"f">>, 1, 5,
                               S_complexity \o <<" ", "1", "2">>),
                FunctionRecord(<<"n", "2">>, <<"f">>, 20, 80,
                               <<"C">> \o Tail(S_complexity) \o <<":", " ", "7">>)}),
    FileRecord(<<"f", "2">>, P_src_b_ts,
               {FunctionRecord(<<"n", "3">>, <<"g">>, 10, 30,
                               <<"A", "d", "d", "s">>),
                FunctionRecord(<<"n", "4">>, <<"b">>, 1, 60, Null)}),
    FileRecord(<<"f", "3">>, P_README_md, {}),
    FileRecord(<<"f", "4">>, P_src_app_api_c_ts, {}),
    FileRecord(<<"f", "5">>, P_docs, {}) }

FolderUniverse == {
    FolderRecord(<<"d", "1">>, P_src),
    FolderRecord(<<"d", "2">>, P_docs),
    FolderRecord(<<"d", "3">>, P_src_app) }

MaxRows == 3     \* File and Folder rows in a snapshot
MaxGets == 2     \* GET /api/tree requests followed

EmptyDb == [files |-> {}, folders |-> {}]

Databases ==
    {d \in [files : SUBSET FileUniverse, folders : SUBSET FolderUniverse] :
        Cardinality(d.files) + Cardinality(d.folders) <= MaxRows}

\* the orders a set of rows can be listed in
Orderings(S) ==
    {s \in [1..Cardinality(S) -> S] :
        \A i, j \in 1..Cardinality(S) : i # j => s[i] # s[j]}

\* prisma.file.findMany({ include: { functions: true } }): no orderBy, so the
\* rows, and each file's functions, come in an order the store chooses
findManyFiles ==
    LET fnOrders == UNION {Orderings(f.functions) : f \in db.files}
        picks == {p \in [db.files -> fnOrders] :
                     \A f \in db.files : p[f] \in Orderings(f.functions)}
    IN {[i \in 1..Len(fs) |-> [fs[i] EXCEPT !.functions = p[fs[i]]]] :
           fs \in Orderings(db.files), p \in picks}

\* prisma.folder.findMany()
findManyFolders == Orderings(db.folders)

(***************************************************************************)
(* buildEnhancedTree (the Tree Reconciler)                                 *)
(*                                                                         *)
(* TreeNode objects live in a heap keyed by node id; a children array      *)
(* holds ids, as the JavaScript array holds references. The summary,       *)
(* language and size metadata are copied from the rows unchanged and are   *)
(* left out.                                                               *)
(***************************************************************************)
calculateInclusive(start, end) ==
    LET lines == end - start + 1
    IN IF lines < 10 THEN "low"
       ELSE IF lines < 50 THEN "medium"
       ELSE "high"
\* function calculateLineComplexity(start, end)
calculateLineComplexity(start, end) ==
    LET lines == end - start
    IN IF lines < 10 THEN "low"
       ELSE IF lines < 50 THEN "medium"
       ELSE "high"

\* files.reduce((sum, file) => sum + file.functions.length, 0)
RECURSIVE functionTotal(_)
functionTotal(files) ==
    IF files = <<>> THEN 0
    ELSE Len(Head(files).functions) + functionTotal(Tail(files))

\* path.split('/').pop() || path
lastSegment(p) ==
    LET parts == split(p)
    IN IF parts[Len(parts)] # <<>> THEN parts[Len(parts)] ELSE p

rootNode(files) ==
    [id |-> S_root, name |-> S_Project_Root, type |-> "dir", path |-> <<>>,
     children |-> <<>>,
     metadata |-> [fileCount |-> Len(files),
                   functionCount |-> functionTotal(files)]]

folderNode(folder) ==
    [id |-> S_folder_ \o folder.id, name |-> lastSegment(folder.path),
     type |-> "dir", path |-> folder.path, children |-> <<>>,
     metadata |-> [type |-> "folder"]]

functionNodeByName(file, func) ==
    [id |-> S_function_ \o func.id,
     name |-> <<"wrench", " ">> \o func.name \o <<"(", ")">>,
     type |-> "function",
     path |-> func.name,
     metadata |-> [summary |-> func.name,
                   startLine |-> func.start, endLine |-> func.end,
                   type |-> "function",
                   complexity |-> calculateLineComplexity(func.start, func.end)]]

functionNode(file, func) ==
    [id |-> S_function_ \o func.id,
     name |-> <<"wrench", " ">> \o func.name \o <<"(", ")">>,
     type |-> "function",
     path |-> file.path \o <<"#">> \o func.name,
     metadata |-> [summary |-> IF func.summary # Null /\ func.summary # <<>>
                               THEN func.summary
                               ELSE <<"F", "u", "n", "c", "t", "i", "o", "n", " ">>
                                    \o func.name,
                   startLine |-> func.start, endLine |-> func.end,
                   type |-> "function",
                   complexity |-> calculateLineComplexity(func.start, func.end)]]

fileNode(file) ==
    [id |-> S_file_ \o file.id, name |-> lastSegment(file.path),
     type |-> "file", path |-> file.path,
     children |-> [i \in 1..Len(file.functions) |->
                      functionNode(file, file.functions[i]).id],
     metadata |-> [functionCount |-> Len(file.functions), type |-> "file"]]

dirNode(thisPath, part) ==
    [id |-> S_dir_ \o thisPath, name |-> part, type |-> "dir",
     path |-> thisPath, children |-> <<>>,
     metadata |-> [type |-> "directory"]]

\* nodeMap.set(path, node), the node being a new object
register(st, path, node) ==
    [st EXCEPT !.heap = (node.id :> node) @@ @,
               !.nodeMap = (path :> node.id) @@ @]

\* folders.forEach(folder => ...)
RECURSIVE addFolders(_, _)
addFolders(st, folders) ==
    IF folders = <<>> THEN st
    ELSE addFolders(register(st, Head(folders).path, folderNode(Head(folders))),
                    Tail(folders))

\* file.functions.forEach(func => fileNode.children.push(functionNode))
RECURSIVE addFunctions(_, _, _)
addFunctions(heap, file, funcs) ==
    IF funcs = <<>> THEN heap
    ELSE addFunctions((functionNode(file, Head(funcs)).id :>
                          functionNode(file, Head(funcs))) @@ heap,
                      file, Tail(funcs))

\* files.forEach(file => ...)
RECURSIVE addFiles(_, _)
addFiles(st, files) ==
    IF files = <<>> THEN st
    ELSE LET file == Head(files)
             withFunctions ==
                 [st EXCEPT !.heap = addFunctions(@, file, file.functions)]
         IN addFiles(register(withFunctions, file.path, fileNode(file)),
                     Tail(files))

\* Array.prototype.sort() without a comparator: by UTF-16 code units
CodeUnitOrder ==
    <<" ", "#", "(", ")", "-", ".", "/">> \o Digits \o Upper \o <<"_">>
        \o Lower \o <<"wrench">>
CodeUnit == [c \in Alphabet |-> IndexOf(c, CodeUnitOrder)]
codeUnitCompare(a, b) == CompareBy(a, b, CodeUnit)

partOnly(thisPath, part) == part
\* currentPath = currentPath ? `${currentPath}/${part}` : part
extendPath(thisPath, part) ==
    IF thisPath # <<>> THEN thisPath \o <<"/">> \o part ELSE part

neverHas(nodeMap, path) == FALSE
\* nodeMap.has(path)
has(nodeMap, path) == path \in DOMAIN nodeMap

\* the body of pathParts.forEach for one part
linkPart(st, parentPath, thisPath, part) ==
    IF thisPath \in st.processedPaths THEN st
    ELSE LET st1 == IF ~has(st.nodeMap, thisPath)
                    THEN register(st, thisPath, dirNode(thisPath, part))
                    ELSE st
             linkable == /\ parentPath \in DOMAIN st1.nodeMap
                         /\ thisPath \in DOMAIN st1.nodeMap
             parentId == st1.nodeMap[parentPath]
             currentId == st1.nodeMap[thisPath]
             st2 == IF /\ linkable
                       /\ ~Includes(st1.heap[parentId].children, currentId)
                    THEN [st1 EXCEPT !.heap[parentId].children =
                                         Append(@, currentId)]
                    ELSE st1
         IN [st2 EXCEPT !.processedPaths = @ \cup {thisPath}]

underRoot(thisPath) == <<>>
\* const parentPath = currentPath, read before currentPath is extended
parentPathOf(thisPath) == thisPath

\* pathParts.forEach((part, index) => ...)
RECURSIVE walkParts(_, _, _)
walkParts(st, thisPath, pathParts) ==
    IF pathParts = <<>> THEN st
    ELSE LET next == extendPath(thisPath, Head(pathParts))
         IN walkParts(linkPart(st, parentPathOf(thisPath), next, Head(pathParts)),
                      next, Tail(pathParts))

\* [...].sort().forEach(fullPath => ...)
RECURSIVE linkPaths(_, _)
linkPaths(st, paths) ==
    IF paths = <<>> THEN st
    ELSE IF Head(paths) \in st.processedPaths THEN linkPaths(st, Tail(paths))
    ELSE linkPaths(walkParts(st, <<>>, SelectSeq(split(Head(paths)), NonEmpty)),
                   Tail(paths))

typeOrder(type) ==
    CASE type = "dir" -> 0 [] type = "file" -> 1 [] type = "function" -> 2

byNameOnly(a, b) == localeCompare(a.name, b.name)
\* the comparator of node.children.sort in sortChildren
byTypeThenName(a, b) ==
    IF typeOrder(a.type) # typeOrder(b.type)
    THEN typeOrder(a.type) - typeOrder(b.type)
    ELSE localeCompare(a.name, b.name)

\* sortChildren(node), followed by the serialisation of the sorted tree below
\* node (NextResponse.json): references become nested objects
RECURSIVE sortChildren(_, _)
sortChildren(heap, id) ==
    LET node == heap[id]
    IN IF "children" \notin DOMAIN node THEN node
       ELSE [node EXCEPT !.children =
                stableSort([i \in 1..Len(node.children) |->
                               sortChildren(heap, node.children[i])],
                           byTypeThenName)]

buildEnhancedTree(files, folders) ==
    LET created == [heap |-> (S_root :> rootNode(files)),
                    nodeMap |-> (<<>> :> S_root),
                    processedPaths |-> {}]
        registered == addFiles(addFolders(created, folders), files)
        paths == stableSort([i \in 1..Len(folders) |-> folders[i].path]
                                \o [i \in 1..Len(files) |-> files[i].path],
                            codeUnitCompare)
        linked == linkPaths(registered, paths)
    IN sortChildren(linked.heap, S_root)

noRecords(files, folders) == Len(files) = 0 /\ Len(folders) = 0
\* if (files.length === 0)
noFiles(files, folders) == Len(files) = 0

\* catch: { success: false, error: 'Failed to generate tree' }, status 500
treeFailed == json(500, [success |-> FALSE, error |-> "Failed to generate tree"])

\* export async function GET(): prisma.file.findMany or prisma.folder.findMany
\* rejects when the store cannot be reached; otherwise they list `files` and
\* `folders`
GET(storeUp, files, folders) ==
    IF ~storeUp THEN treeFailed
    ELSE IF noFiles(files, folders)
    THEN json(200, [success |-> FALSE,
                    error |-> "No analyzed files found. Please upload and process a project first."])
    ELSE json(200, [success |-> TRUE,
                    tree |-> buildEnhancedTree(files, folders),
                    stats |-> [files |-> Len(files), folders |-> Len(folders),
                               functions |-> functionTotal(files)]])

\* a client requests the tree once its upload has been answered; response
\* keeps the request next to its answer
GetTree ==
    /\ pc \in AnsweredAt
    /\ gets < MaxGets
    /\ \E storeUp \in BOOLEAN, files \in findManyFiles,
          folders \in findManyFolders :
           LET answer == [storeUp |-> storeUp,
                          answer |-> GET(storeUp, files, folders)]
           IN /\ response' = answer
              /\ firstResponse' = IF gets = 0 THEN answer ELSE firstResponse
    /\ gets' = gets + 1
    /\ UNCHANGED db
    /\ UNCHANGED locatorVars
    /\ UNCHANGED jobVars

(***************************************************************************)
(* The upload handler after extraction (locate the root, build the tree),  *)
(* then the requests for the response tree                               *)
(***************************************************************************)
\* the archive uploaded in the behaviours whose store holds rows:
\* package.json and src/b.js
(***************************************************************************)
(* The ingest worker (src/workers/ingest-worker.ts), which the upload      *)
(* handler spawns; its effect on the Job row as the specification          *)
(* describes it: pending -> processing -> completed | failed               *)
(***************************************************************************)
updateJob(rows, id, status, message) ==
    {IF j.id = id THEN [j EXCEPT !.status = status, !.message = message]
     ELSE j : j \in rows}

WorkerUpdates(from, to, message) ==
    /\ \E w \in workers : \E j \in jobs :
           /\ j.id = w.jobId
           /\ j.status = from
           /\ jobs' = updateJob(jobs, j.id, to, message)
    /\ UNCHANGED locatorVars
    /\ UNCHANGED reconcilerVars
    /\ UNCHANGED <<request, workers, job, uploadResponse, endpointVars, classifierVars, scoreVars, clientVars>>

WorkerStart ==
    /\ workers # {}
    /\ WorkerUpdates("pending", "processing", "Processing files")

WorkerComplete ==
    /\ workers # {}
    /\ WorkerUpdates("processing", "completed", "Analysis complete")

WorkerFail ==
    /\ workers # {}
    /\ WorkerUpdates("processing", "failed", "Analysis failed")

(***************************************************************************)
(* GET /api/ingest/[jobId]/status                                          *)
(***************************************************************************)
\* prisma.job.findUnique({ where: { id } }): the row, null, or a rejection
\* when the store cannot be reached
NoRow == [id |-> None]
findUniqueJob(id, storeUp) ==
    IF ~storeUp THEN [ok |-> FALSE, row |-> NoRow]
    ELSE IF \E j \in jobs : j.id = id
    THEN [ok |-> TRUE, row |-> CHOOSE j \in jobs : j.id = id]
    ELSE [ok |-> TRUE, row |-> NoRow]

jobNotFoundAsError == InternalError
\* if (!job) return 404 'Job not found'
jobNotFound == json(404, [success |-> FALSE, error |-> "Job not found"])

statusGET(jobId, storeUp) ==
    LET found == findUniqueJob(jobId, storeUp)
    IN IF jobId = <<>> THEN BadRequest("Job ID is required")
       ELSE IF ~found.ok THEN InternalError
       ELSE IF found.row = NoRow THEN jobNotFound
       ELSE json(200, [success |-> TRUE,
                       job |-> [id |-> found.row.id,
                                status |-> found.row.status,
                                message |-> found.row.message]])

\* the job ids asked for: the first two ids the table gives out, and none
PollIds == {<<"job", 1>>, <<"job", 2>>, <<>>}

\* statusResponse keeps the request next to its answer
GetStatus ==
    /\ \E jobId \in PollIds, storeUp \in BOOLEAN :
           statusResponse' = [jobId |-> jobId, storeUp |-> storeUp,
                              answer |-> statusGET(jobId, storeUp)]
    /\ UNCHANGED locatorVars
    /\ UNCHANGED reconcilerVars
    /\ UNCHANGED <<request, jobs, workers, job, uploadResponse, nodeResponse,
                   statsResponse, resultsResponse, classifierVars,
                   scoreVars, clientVars>>

(***************************************************************************)
(* Strings: includes, match and parseInt as the two endpoints below use    *)
(* them                                                                    *)
(***************************************************************************)
startsWithAt(s, sub, i) ==
    i + Len(sub) - 1 <= Len(s) /\ SubSeq(s, i, i + Len(sub) - 1) = sub

\* String.prototype.includes
stringIncludes(s, sub) == \E i \in 1..(Len(s) + 1) : startsWithAt(s, sub, i)

IsDigit(c) == InSeq(c, Digits)
\* \s: tab, line feed, vertical tab, form feed, carriage return, space and
\* the white space outside ASCII; a character outside ASCII is written
\* "U+" and its code point in four hexadecimal digits
WhiteSpace ==
    {"\t", "\n", "", "\f", "\r", " ",
     "U+00A0", "U+1680", "U+2000", "U+2001", "U+2002", "U+2003",
     "U+2004", "U+2005", "U+2006", "U+2007", "U+2008", "U+2009",
     "U+200A", "U+2028", "U+2029", "U+202F", "U+205F", "U+3000",
     "U+FEFF"}

\* [:\s]
IsColonOrSpace(c) == c = ":" \/ c \in WhiteSpace

\* the index after the longest run of Class characters that starts at i
RunEnd(s, i, Class(_)) ==
    CHOOSE j \in i..(Len(s) + 1) :
        /\ \A k \in i..(j - 1) : Class(s[k])
        /\ j = Len(s) + 1 \/ ~Class(s[j])

NoMatch == [matched |-> FALSE, group |-> <<>>]

\* the leftmost match of a pattern that is matched at i by At(i)
Leftmost(s, At(_)) ==
    IF \E i \in 1..Len(s) : At(i).matched
    THEN At(CHOOSE i \in 1..Len(s) :
                /\ At(i).matched
                /\ \A k \in 1..(i - 1) : ~At(k).matched)
    ELSE NoMatch

\* /complexity[:\s]*(\d+)/ tried at index i
colonPatternAt(s, i) ==
    LET d == RunEnd(s, i + Len(S_complexity), IsColonOrSpace)
        e == RunEnd(s, d, IsDigit)
    IN IF startsWithAt(s, S_complexity, i) /\ e > d
       THEN [matched |-> TRUE, group |-> SubSeq(s, d, e - 1)]
       ELSE NoMatch

\* summaryText.match(/complexity[:\s]*(\d+)/)
matchColonPattern(s) == LET At(i) == colonPatternAt(s, i) IN Leftmost(s, At)

\* /complexity (\d+)/ tried at index i
spacePatternAt(s, i) ==
    LET d == i + Len(S_complexity) + 1
        e == RunEnd(s, d, IsDigit)
    IN IF startsWithAt(s, S_complexity \o <<" ">>, i) /\ e > d
       THEN [matched |-> TRUE, group |-> SubSeq(s, d, e - 1)]
       ELSE NoMatch

\* func.summary.match(/complexity (\d+)/)
matchSpacePattern(s) == LET At(i) == spacePatternAt(s, i) IN Leftmost(s, At)

\* parseInt of a string of decimal digits
RECURSIVE parseInt(_)
parseInt(digits) ==
    IF digits = <<>> THEN 0
    ELSE 10 * parseInt(SubSeq(digits, 1, Len(digits) - 1))
         + (IndexOf(digits[Len(digits)], Digits) - 1)

(***************************************************************************)
(* GET /api/analysis/stats                                                 *)
(***************************************************************************)
\* prisma.function.findMany(): every Function row
findManyFunctions == UNION {f.functions : f \in db.files}

bucketByLines(func) == calculateLineComplexity(func.start, func.end)
\* functions.forEach: the bucket a function is counted in
bucketOf(func) ==
    LET summaryText == toLowerCase(func.summary)
        complexityMatch == matchColonPattern(summaryText)
        complexity == IF complexityMatch.matched
                      THEN parseInt(complexityMatch.group) ELSE 1
    IN IF stringIncludes(summaryText, S_complexity)
       THEN (IF complexity <= 5 THEN "low"
             ELSE IF complexity <= 10 THEN "medium"
             ELSE "high")
       ELSE "low"

\* catch: { error: 'Internal server error' }, status 500
plainInternalError == json(500, [error |-> "Internal server error"])

\* func.summary.toLowerCase() and func.summary.includes(...) throw a TypeError
\* on a null summary
statsGET(storeUp) ==
    LET functions == findManyFunctions
        counted(class) == Cardinality({f \in functions : bucketOf(f) = class})
    IN IF ~storeUp \/ \E f \in functions : f.summary = Null
       THEN plainInternalError
       ELSE json(200, [totalFiles |-> Cardinality(db.files),
                       totalFunctions |-> Cardinality(functions),
                       complexityStats |-> [low |-> counted("low"),
                                            medium |-> counted("medium"),
                                            high |-> counted("high")]])

GetStats ==
    /\ \E storeUp \in BOOLEAN :
           statsResponse' = [storeUp |-> storeUp, answer |-> statsGET(storeUp)]
    /\ UNCHANGED locatorVars
    /\ UNCHANGED reconcilerVars
    /\ UNCHANGED <<request, jobs, workers, job, uploadResponse, statusResponse,
                   nodeResponse, resultsResponse, classifierVars, scoreVars,
                   clientVars>>

(***************************************************************************)
(* GET /api/analysis/results                                               *)
(***************************************************************************)
\* orderBy: { path: 'asc' }: sqlite compares the bytes of the paths, which
\* are unique
filesByPath ==
    CHOOSE s \in Orderings(db.files) :
        \A i, j \in 1..Len(s) :
            i < j => codeUnitCompare(s[i].path, s[j].path) < 0

\* include: { functions: { orderBy: { start: 'asc' } } }: the orders the
\* store may list a file's functions in
functionsByStart(file) ==
    {o \in Orderings(file.functions) :
        \A i, j \in 1..Len(o) : i < j => o[i].start <= o[j].start}

\* file.functions.map(func => ({ id, name, summary, startLine, endLine }))
resultFunction(func) ==
    [id |-> func.id, name |-> func.name, summary |-> func.summary,
     startLine |-> func.start, endLine |-> func.end]

\* files.map(file => ({ id, path, ..., functions })); the modelled File rows
\* carry id, path and functions. `functions` is the order the store listed
\* the file's functions in: by start, functions of equal start in an order
\* the store chooses
resultFile(file, functions) ==
    [id |-> file.id, path |-> file.path,
     functions |-> [i \in 1..Len(functions) |-> resultFunction(functions[i])]]

RECURSIVE SumOver(_, _)
SumOver(s, i) ==
    IF i > Len(s) THEN 0 ELSE Len(s[i].functions) + SumOver(s, i + 1)

\* files.reduce((sum, file) => sum + file.functions.length, 0)
totalFunctions(files) == SumOver(files, 1)

\* const analysisData = { files, totalFunctions, functionComplexity }
analysisData(pick) ==
    LET files == filesByPath
        listed == [i \in 1..Len(files) |-> resultFile(files[i], pick[files[i]])]
    IN [files |-> listed,
        totalFunctions |-> totalFunctions(listed),
        functionComplexity |-> [low |-> 0, medium |-> 0, high |-> 0]]

onlyPendingRefused(row) == row.status = "pending"
\* if (job.status !== 'completed')
notCompleted(row) == row.status # "completed"

\* pick: for every File row, the order the store lists its functions in
resultsGET(jobId, storeUp, pick) ==
    LET found == findUniqueJob(jobId, storeUp)
    IN IF jobId = <<>> THEN BadRequest("Job ID is required")
       ELSE IF ~found.ok THEN InternalError
       ELSE IF found.row = NoRow THEN jobNotFound
       ELSE IF notCompleted(found.row) THEN BadRequest("Job not completed yet")
       ELSE json(200, [success |-> TRUE,
                       analysis |-> analysisData(pick),
                       job |-> [id |-> found.row.id,
                                status |-> found.row.status,
                                message |-> found.row.message]])

\* resultsResponse keeps the request, and the Job table it was answered
\* from, next to its answer
GetResults ==
    /\ \E jobId \in PollIds, storeUp \in BOOLEAN :
           \E pick \in [db.files -> UNION {functionsByStart(f) : f \in db.files}] :
               /\ \A f \in db.files : pick[f] \in functionsByStart(f)
               /\ resultsResponse' = [jobId |-> jobId, storeUp |-> storeUp,
                                      rows |-> jobs,
                                      answer |-> resultsGET(jobId, storeUp, pick)]
    /\ UNCHANGED locatorVars
    /\ UNCHANGED reconcilerVars
    /\ UNCHANGED <<request, jobs, workers, job, uploadResponse, statusResponse,
                   nodeResponse, statsResponse, classifierVars, scoreVars,
                   clientVars>>

(***************************************************************************)
(* GET /api/nodes/[path]                                                   *)
(***************************************************************************)
HexDigits == Digits \o <<"A", "B", "C", "D", "E", "F", "a", "b", "c", "d", "e", "f">>

\* the characters with code 0 to 127, in the order of their codes; a control
\* character without an escape of its own, and the grave accent, are written
\* like a character outside ASCII
Ascii ==
    <<"U+0000", "U+0001", "U+0002", "U+0003", "U+0004", "U+0005", "U+0006", "U+0007",
      "U+0008", "\t", "\n", "", "\f", "\r", "U+000E", "U+000F",
      "U+0010", "U+0011", "U+0012", "U+0013", "U+0014", "U+0015", "U+0016", "U+0017",
      "U+0018", "U+0019", "U+001A", "U+001B", "U+001C", "U+001D", "U+001E", "U+001F",
      " ", "!", "\"", "#", "$", "%", "&", "'",
      "(", ")", "*", "+", ",", "-", ".", "/",
      "0", "1", "2", "3", "4", "5", "6", "7",
      "8", "9", ":", ";", "<", "=", ">", "?",
      "@", "A", "B", "C", "D", "E", "F", "G",
      "H", "I", "J", "K", "L", "M", "N", "O",
      "P", "Q", "R", "S", "T", "U", "V", "W",
      "X", "Y", "Z", "[", "\\", "]", "^", "_",
      "U+0060", "a", "b", "c", "d", "e", "f", "g",
      "h", "i", "j", "k", "l", "m", "n", "o",
      "p", "q", "r", "s", "t", "u", "v", "w",
      "x", "y", "z", "{", "|", "}", "~", "U+007F">>

\* the value of a hexadecimal digit
hexValue(c) ==
    LET i == IndexOf(c, HexDigits) IN IF i <= 16 THEN i - 1 ELSE i - 7

\* n in at least `width` upper-case hexadecimal digits
RECURSIVE toHex(_, _)
toHex(n, width) ==
    IF n < 16 /\ width <= 1 THEN HexDigits[n + 1]
    ELSE toHex(n \div 16, width - 1) \o HexDigits[(n % 16) + 1]

\* the character with code point cp: one element of a string, also above
\* U+FFFF, where JavaScript holds two code units
fromCodePoint(cp) ==
    IF cp < 128 THEN Ascii[cp + 1]
    ELSE IF cp = 128295 THEN "wrench"
    ELSE "U+" \o toHex(cp, 4)

\* the octet a percent escape %hi lo stands for
octet(hi, lo) == 16 * hexValue(hi) + hexValue(lo)

\* the character a percent escape of one octet (below 0x80) stands for
Unescaped(hi, lo) == fromCodePoint(octet(hi, lo))

\* s holds a percent escape at i
escapeAt(s, i) ==
    /\ i + 2 <= Len(s)
    /\ s[i] = "%"
    /\ InSeq(s[i + 1], HexDigits)
    /\ InSeq(s[i + 2], HexDigits)

\* the number of octets of the UTF-8 sequence that starts with octet b; 0
\* when no sequence starts with it
sequenceLength(b) ==
    IF b < 128 THEN 1
    ELSE IF b \in 194..223 THEN 2
    ELSE IF b \in 224..239 THEN 3
    ELSE IF b \in 240..244 THEN 4
    ELSE 0

\* the octets b[1..n] are the UTF-8 encoding of one code point: continuation
\* octets, no overlong form, no surrogate, nothing above U+10FFFF
wellFormedUtf8(b) ==
    /\ \A k \in 2..Len(b) : b[k] \in 128..191
    /\ b[1] = 224 => b[2] >= 160
    /\ b[1] = 237 => b[2] <= 159
    /\ b[1] = 240 => b[2] >= 144
    /\ b[1] = 244 => b[2] <= 143

\* the code point the well-formed octets b encode
codePointOf(b) ==
    CASE Len(b) = 1 -> b[1]
      [] Len(b) = 2 -> (b[1] - 192) * 64 + (b[2] - 128)
      [] Len(b) = 3 -> (b[1] - 224) * 4096 + (b[2] - 128) * 64 + (b[3] - 128)
      [] Len(b) = 4 -> (b[1] - 240) * 262144 + (b[2] - 128) * 4096
                           + (b[3] - 128) * 64 + (b[4] - 128)

\* decodeURIComponent: a '%' not followed by two hex digits, or escapes that
\* are not the UTF-8 encoding of a code point, throw a URIError
RECURSIVE decodeURIComponent(_)
decodeURIComponent(s) ==
    IF s = <<>> THEN [ok |-> TRUE, value |-> <<>>]
    ELSE IF Head(s) # "%"
    THEN LET rest == decodeURIComponent(Tail(s))
         IN [ok |-> rest.ok, value |-> <<Head(s)>> \o rest.value]
    ELSE IF ~escapeAt(s, 1) THEN [ok |-> FALSE, value |-> <<>>]
    ELSE LET n == sequenceLength(octet(s[2], s[3]))
             complete == n >= 1 /\ \A k \in 1..n : escapeAt(s, 3 * k - 2)
             octets == [k \in 1..n |-> octet(s[3 * k - 1], s[3 * k])]
         IN IF ~complete THEN [ok |-> FALSE, value |-> <<>>]
            ELSE IF ~wellFormedUtf8(octets) THEN [ok |-> FALSE, value |-> <<>>]
            ELSE LET rest == decodeURIComponent(SubSeq(s, 3 * n + 1, Len(s)))
                 IN [ok |-> rest.ok,
                     value |-> (IF n = 1 THEN <<Unescaped(s[2], s[3])>>
                                ELSE <<fromCodePoint(codePointOf(octets))>>)
                                   \o rest.value]

complexityFromLines(func) == [string |-> calculateLineComplexity(func.start, func.end)]
\* complexity: func.summary.includes('complexity')
\*     ? parseInt(func.summary.match(/complexity (\d+)/)?.[1] || '1') : 1
\* a JSON number, kept apart from a JSON string
detailComplexity(func) ==
    [number |-> IF stringIncludes(func.summary, S_complexity)
                   /\ matchSpacePattern(func.summary).matched
                THEN parseInt(matchSpacePattern(func.summary).group)
                ELSE 1]

\* if (!file) return 404 { error: 'File not found' }
fileNotFoundAsError == plainInternalError
fileNotFound == json(404, [error |-> "File not found"])

nodeGET(encodedPath, storeUp, pick) ==
    LET filePath == decodeURIComponent(encodedPath)
        found == {f \in db.files : f.path = filePath.value}
        file == CHOOSE f \in found : TRUE
        functions == pick[file]
    IN IF ~filePath.ok \/ ~storeUp THEN plainInternalError
       ELSE IF found = {} THEN fileNotFound
       ELSE IF \E f \in file.functions : f.summary = Null
       THEN plainInternalError
       ELSE json(200,
                [id |-> file.id, path |-> file.path,
                 name |-> basename(file.path), type |-> "file",
                 metrics |-> [complexity |-> Cardinality(
                                  {f \in file.functions :
                                      stringIncludes(f.summary, S_complexity)}),
                              functionCount |-> Len(functions)],
                 functions |-> [i \in 1..Len(functions) |->
                     [id |-> functions[i].id, name |-> functions[i].name,
                      summary |-> functions[i].summary,
                      startLine |-> functions[i].start \div 50,
                      endLine |-> functions[i].end \div 50,
                      complexity |-> detailComplexity(functions[i])]]])

\* the characters encodeURIComponent leaves as they are
unreservedMarks == <<"-", "_", ".", "!", "~", "*", "'", "(", ")">>
IsUnreserved(c) ==
    InSeq(c, Lower) \/ InSeq(c, Upper) \/ InSeq(c, Digits)
        \/ InSeq(c, unreservedMarks)

\* %XX for an octet
percentEscape(b) == <<"%", HexDigits[(b \div 16) + 1], HexDigits[(b % 16) + 1]>>

\* the UTF-8 octets of code point cp
utf8(cp) ==
    IF cp < 128 THEN <<cp>>
    ELSE IF cp < 2048 THEN <<192 + (cp \div 64), 128 + (cp % 64)>>
    ELSE IF cp < 65536
    THEN <<224 + (cp \div 4096), 128 + ((cp \div 64) % 64), 128 + (cp % 64)>>
    ELSE <<240 + (cp \div 262144), 128 + ((cp \div 4096) % 64),
           128 + ((cp \div 64) % 64), 128 + (cp % 64)>>

\* the code point of a character: of the ASCII characters, of "wrench"
\* (U+1F527) and of the characters written "U+XXXX" up to U+FFFF
codePointAt(c) ==
    IF InSeq(c, Ascii) THEN IndexOf(c, Ascii) - 1
    ELSE IF c = "wrench" THEN 128295
    ELSE CHOOSE cp \in 128..65535 : fromCodePoint(cp) = c

RECURSIVE escapeOctets(_)
escapeOctets(b) ==
    IF b = <<>> THEN <<>> ELSE percentEscape(Head(b)) \o escapeOctets(Tail(b))

\* encodeURIComponent(data.path): every character but the unreserved ones is
\* replaced by the percent escapes of its UTF-8 octets
RECURSIVE encodeURIComponent(_)
encodeURIComponent(s) ==
    IF s = <<>> THEN <<>>
    ELSE (IF IsUnreserved(Head(s)) THEN <<Head(s)>>
          ELSE escapeOctets(utf8(codePointAt(Head(s)))))
         \o encodeURIComponent(Tail(s))

\* the paths asked for, as they stand in the URL: src/a.ts, src/b.ts, a path
\* no row has, and a malformed escape
NodePaths == {encodeURIComponent(P_src_a_ts), encodeURIComponent(P_src_b_ts),
              encodeURIComponent(P_src \o <<"/">> \o S_c_py), P_src \o <<"%">>}

GetNode ==
    /\ \E encodedPath \in NodePaths, storeUp \in BOOLEAN :
           \E pick \in [db.files -> UNION {functionsByStart(f) : f \in db.files}] :
               /\ \A f \in db.files : pick[f] \in functionsByStart(f)
               /\ nodeResponse' = [path |-> encodedPath, storeUp |-> storeUp,
                                   answer |-> nodeGET(encodedPath, storeUp, pick)]
    /\ UNCHANGED locatorVars
    /\ UNCHANGED reconcilerVars
    /\ UNCHANGED <<request, jobs, workers, job, uploadResponse, statusResponse,
                   statsResponse, resultsResponse, classifierVars,
                   scoreVars, clientVars>>

StoredProject == Archive(0, {1, 7}, FALSE, TRUE)

\* an upload of exactly 25 * 1024 * 1024 bytes: /x/a.ts
AtLimitArchive == Archive(0, {9}, FALSE, TRUE)

Init ==
    /\ request \in Requests
    /\ IF Accepted(request)
       THEN /\ IsArchive(disk)
            /\ request.size = sizeLimit => disk = AtLimitArchive
       ELSE disk = NoNode
    /\ extractPath = ExtractDir
    /\ currentPath = ExtractDir
    /\ depth = 0
    /\ continues = 0
    /\ pc = "received"
    /\ result = None
    /\ call = 1
    /\ firstResult = None
    /\ firstDepth = 0
    /\ sawError = {}
    /\ tree = None
    /\ db \in IF disk = StoredProject THEN Databases ELSE {EmptyDb}
    /\ response = None
    /\ firstResponse = None
    /\ gets = 0
    /\ jobs = {}
    /\ workers = {}
    /\ job = [id |-> None]
    /\ uploadResponse = NoResponse
    /\ statusResponse = NoResponse
    /\ nodeResponse = NoResponse
    /\ statsResponse = NoResponse
    /\ resultsResponse = NoResponse
    /\ lineStart = 0
    /\ lineEnd = 0
    /\ lineComplexity = None
    /\ scored = NotScored
    /\ ClientIdle

Next ==
    \/ NoFile
    \/ TooLarge
    \/ WriteFails
    \/ ExtractFails
    \/ Extract
    \/ LoopExit
    \/ ListingFails
    \/ GoodRoot
    \/ DescendSingle
    \/ DescendProjectDir
    \/ DescendFirstDir
    \/ ContinueUnchanged
    \/ StopHere
    \/ Relocate
    \/ BuildTree
    \/ CreateJob
    \/ CreateJobFails
    \/ LaunchWorker
    \/ LaunchWorkerFails
    \/ Respond
    \/ UnlinkFails
    \/ GetTree

Spec == Init /\ [][Next]_vars

(***************************************************************************)
(* The uploads of a few archives together with the worker and the other    *)
(* endpoints                                                               *)
(***************************************************************************)
\* one archive for each way findActualRoot ends or goes on
JobArchives == {
    StoredProject,
    AtLimitArchive,
    Archive(MaxWrap, {1, 7}, FALSE, FALSE),
    Archive(0, {4, 10}, FALSE, TRUE),
    Archive(0, {2, 4}, FALSE, TRUE),
    Archive(0, {6, 8}, FALSE, TRUE),
    Archive(0, {3}, FALSE, TRUE),
    Faulty(Archive(0, {3}, FALSE, TRUE), <<"readOk", <<>>>>),
    Faulty(Archive(0, {3}, FALSE, TRUE), <<"statOk", <<>>>>) }

\* nothing persisted yet, the facts of src/a.ts, or those of src/a.ts and
\* src/b.ts
JobDatabases ==
    {EmptyDb,
     [files |-> {f \in FileUniverse : f.path = P_src_a_ts}, folders |-> {}],
     [files |-> {f \in FileUniverse : f.path \in {P_src_a_ts, P_src_b_ts}},
      folders |-> {}]}

JobInit ==
    /\ Init
    /\ Accepted(request) => disk \in JobArchives
    /\ db \in JobDatabases

JobNext ==
    \/ Next
    \/ WorkerStart
    \/ WorkerComplete
    \/ WorkerFail
    \/ GetStatus

JobSpec == JobInit /\ [][JobNext]_vars

(***************************************************************************)
(* The endpoints that read the persisted facts, on a server that is sent   *)
(* an upload without a file                                                *)
(***************************************************************************)
\* the server with its upload handler at `at`, its Job table holding `rows`
\* and the workers launched for them running
ServerHolding(rows, at) ==
    /\ request = NoFileGiven
    /\ disk = NoNode
    /\ db \in JobDatabases
    /\ extractPath = ExtractDir
    /\ currentPath = ExtractDir
    /\ depth = 0
    /\ continues = 0
    /\ pc = at
    /\ result = None
    /\ call = 1
    /\ firstResult = None
    /\ firstDepth = 0
    /\ sawError = {}
    /\ tree = None
    /\ response = None
    /\ firstResponse = None
    /\ gets = 0
    /\ jobs = rows
    /\ workers = {launchIngestWorker(j.id, j.extractPath) : j \in rows}
    /\ job = [id |-> None]
    /\ uploadResponse = NoResponse
    /\ statusResponse = NoResponse
    /\ nodeResponse = NoResponse
    /\ statsResponse = NoResponse
    /\ resultsResponse = NoResponse
    /\ lineStart = 0
    /\ lineEnd = 0
    /\ lineComplexity = None
    /\ scored = NotScored

\* the server when an upload without a file arrives
FactsServer(rows) ==
    /\ ServerHolding(rows, "received")
    /\ request = NoFileGiven

EndpointInit == FactsServer({}) /\ ClientIdle

EndpointNext ==
    \/ NoFile
    \/ GetTree
    \/ GetNode
    \/ GetStats

EndpointSpec == EndpointInit /\ [][EndpointNext]_vars

(***************************************************************************)
(* The two endpoints that look a row up by its key, on the same server;    *)
(* the Job table is empty or holds the row of an earlier upload of /x,     *)
(* whose worker is running                                                 *)
(***************************************************************************)
EarlierJob == [id |-> cuid({})] @@ jobData(ExtractDir)

LookupInit == ClientIdle /\ \E rows \in {{}, {EarlierJob}} : FactsServer(rows)

LookupNext ==
    \/ NoFile
    \/ GetStatus
    \/ GetNode
    \/ GetResults
    \/ WorkerStart
    \/ WorkerComplete
    \/ WorkerFail

LookupSpec == LookupInit /\ [][LookupNext]_vars

(***************************************************************************)
(* calculateLineComplexity applied to every start and end of a range       *)
(***************************************************************************)
MaxLine == 60    \* start and end range over -MaxLine..MaxLine

ClassifierInit ==
    /\ lineStart \in -MaxLine..MaxLine
    /\ lineEnd \in -MaxLine..MaxLine
    /\ lineComplexity = None
    /\ scored = NotScored
    /\ ClientIdle
    /\ request = NoFileGiven
    /\ disk = NoNode
    /\ extractPath = ExtractDir
    /\ currentPath = ExtractDir
    /\ depth = 0
    /\ continues = 0
    /\ pc = "received"
    /\ result = None
    /\ call = 1
    /\ firstResult = None
    /\ firstDepth = 0
    /\ sawError = {}
    /\ tree = None
    /\ db = EmptyDb
    /\ response = None
    /\ firstResponse = None
    /\ gets = 0
    /\ jobs = {}
    /\ workers = {}
    /\ job = [id |-> None]
    /\ uploadResponse = NoResponse
    /\ statusResponse = NoResponse
    /\ nodeResponse = NoResponse
    /\ statsResponse = NoResponse
    /\ resultsResponse = NoResponse

Classify ==
    /\ lineComplexity = None
    /\ lineComplexity' = calculateLineComplexity(lineStart, lineEnd)
    /\ UNCHANGED <<lineStart, lineEnd>>
    /\ UNCHANGED locatorVars
    /\ UNCHANGED reconcilerVars
    /\ UNCHANGED <<request, jobs, workers, job, uploadResponse, endpointVars,
                   scoreVars, clientVars>>

ClassifierNext == Classify

ClassifierSpec == ClassifierInit /\ [][ClassifierNext]_vars

(***************************************************************************)
(* The root score on its own: findActualRoot scores the extraction         *)
(* directory of an archive that unpacked to a single flat directory. The   *)
(* directory lists at most MaxScored of the entries below; src is a file,  *)
(* a directory or a directory that cannot be listed.                       *)
(***************************************************************************)
MaxScored == 3

ScoreMenu == <<
    FileE(S_index_ts),
    FileE(S_src),
    DirE(S_src, <<FileE(S_b_js), FileE(S_c_py), FileE(S_dot_e_ts)>>),
    [DirE(S_src, <<FileE(S_b_js)>>) EXCEPT !.readOk = FALSE],
    FileE(S_a_ts),
    FileE(S_c_py),
    FileE(S_package_json),
    FileE(S_A_TS),
    FileE(S_Thumbs_db),
    FileE(S_dot_e_ts),
    DirE(S_MACOSX, <<FileE(S_a_ts)>>),
    FileE(S_MACOSX_a_ts),
    FileE(S_README_md)
>>

\* a directory holds one entry of a name
ScoredPicks ==
    {P \in SUBSET (1..Len(ScoreMenu)) :
        /\ Cardinality(P) <= MaxScored
        /\ \A i, j \in P : ScoreMenu[i].name = ScoreMenu[j].name => i = j}

ScoredDir(P) ==
    LET idx == SetToSeq(P)
    IN DirE(S_x, [i \in 1..Len(idx) |-> ScoreMenu[idx[i]]])

ScoreInit ==
    /\ disk \in {ScoredDir(P) : P \in ScoredPicks}
    /\ scored = NotScored
    /\ ClientIdle
    /\ request = NoFileGiven
    /\ extractPath = ExtractDir
    /\ currentPath = ExtractDir
    /\ depth = 0
    /\ continues = 0
    /\ pc = "locating"
    /\ result = None
    /\ call = 1
    /\ firstResult = None
    /\ firstDepth = 0
    /\ sawError = {}
    /\ tree = None
    /\ db = EmptyDb
    /\ response = None
    /\ firstResponse = None
    /\ gets = 0
    /\ jobs = {}
    /\ workers = {}
    /\ job = [id |-> None]
    /\ uploadResponse = NoResponse
    /\ statusResponse = NoResponse
    /\ nodeResponse = NoResponse
    /\ statsResponse = NoResponse
    /\ resultsResponse = NoResponse
    /\ lineStart = 0
    /\ lineEnd = 0
    /\ lineComplexity = None

\* the first pass of the loop, from the listing of currentPath to the value
\* of `score` that is compared with the threshold
ScoreRoot ==
    /\ pc = "locating"
    /\ scored = NotScored
    /\ readdir(currentPath).ok
    /\ scored' = [done |-> TRUE,
                  value |-> rootScore(currentPath,
                                      validEntriesOf(readdir(currentPath).entries))]
    /\ UNCHANGED locatorVars
    /\ UNCHANGED reconcilerVars
    /\ UNCHANGED <<request, jobs, workers, job, uploadResponse, endpointVars,
                   classifierVars, clientVars>>

ScoreNext == ScoreRoot

ScoreSpec == ScoreInit /\ [][ScoreNext]_vars

(***************************************************************************)
(* GET /api/tree over rows whose paths have empty segments. The path       *)
(* column is a string the schema does not constrain: 'src//a.ts' (a        *)
(* doubled '/'), '/src/b.ts' (a leading '/') and 'docs/' (a trailing '/')  *)
(* next to the rows src/a.ts, README.md and src.                           *)
(***************************************************************************)
P_src__a_ts == <<"s", "r", "c", "/", "/", "a", ".", "t", "s">>
P__src_b_ts == <<"/", "s", "r", "c", "/", "b", ".", "t", "s">>
P_docs_ == <<"d", "o", "c", "s", "/">>

MalformedFiles == {
    FileRecord(<<"f", "6">>, P_src__a_ts,
               {FunctionRecord(<<"n", "5">>, <<"h">>, 1, 5, <<"A", "d", "d", "s">>)}),
    FileRecord(<<"f", "7">>, P__src_b_ts, {}) }

MalformedFolders == { FolderRecord(<<"d", "4">>, P_docs_) }

ReconcileDatabases ==
    {d \in [files : SUBSET (MalformedFiles
                               \cup {f \in FileUniverse :
                                        f.path \in {P_src_a_ts, P_README_md}}),
            folders : SUBSET (MalformedFolders
                                 \cup {f \in FolderUniverse : f.path = P_src})] :
        Cardinality(d.files) + Cardinality(d.folders) <= MaxRows}

ReconcileInit ==
    /\ db \in ReconcileDatabases
    /\ request = NoFileGiven
    /\ disk = NoNode
    /\ extractPath = ExtractDir
    /\ currentPath = ExtractDir
    /\ depth = 0
    /\ continues = 0
    /\ pc = "received"
    /\ result = None
    /\ call = 1
    /\ firstResult = None
    /\ firstDepth = 0
    /\ sawError = {}
    /\ tree = None
    /\ response = None
    /\ firstResponse = None
    /\ gets = 0
    /\ jobs = {}
    /\ workers = {}
    /\ job = [id |-> None]
    /\ uploadResponse = NoResponse
    /\ statusResponse = NoResponse
    /\ nodeResponse = NoResponse
    /\ statsResponse = NoResponse
    /\ resultsResponse = NoResponse
    /\ lineStart = 0
    /\ lineEnd = 0
    /\ lineComplexity = None
    /\ scored = NotScored
    /\ ClientIdle

ReconcileNext ==
    \/ NoFile
    \/ GetTree

ReconcileSpec == ReconcileInit /\ [][ReconcileNext]_vars

(***************************************************************************)
(* GET /api/tree over every kind of row the schema allows: the rows of a   *)
(* file tree, rows whose path has empty segments, and a File row whose     *)
(* path lies below the path of another File row (path is unique, nothing   *)
(* else is required of it)                                                 *)
(***************************************************************************)
P_docs_x_md == <<"d", "o", "c", "s", "/", "x", ".", "m", "d">>

\* docs/x.md, below the File row docs
NestedFiles == {
    FileRecord(<<"f", "8">>, P_docs_x_md,
               {FunctionRecord(<<"n", "6">>, <<"k">>, 1, 5, Null)}) }

SnapshotDatabases ==
    {d \in [files : SUBSET (FileUniverse \cup MalformedFiles \cup NestedFiles),
            folders : SUBSET (FolderUniverse \cup MalformedFolders)] :
        Cardinality(d.files) + Cardinality(d.folders) <= MaxRows}

SnapshotInit ==
    /\ db \in SnapshotDatabases
    /\ request = NoFileGiven
    /\ disk = NoNode
    /\ extractPath = ExtractDir
    /\ currentPath = ExtractDir
    /\ depth = 0
    /\ continues = 0
    /\ pc = "received"
    /\ result = None
    /\ call = 1
    /\ firstResult = None
    /\ firstDepth = 0
    /\ sawError = {}
    /\ tree = None
    /\ response = None
    /\ firstResponse = None
    /\ gets = 0
    /\ jobs = {}
    /\ workers = {}
    /\ job = [id |-> None]
    /\ uploadResponse = NoResponse
    /\ statusResponse = NoResponse
    /\ nodeResponse = NoResponse
    /\ statsResponse = NoResponse
    /\ resultsResponse = NoResponse
    /\ lineStart = 0
    /\ lineEnd = 0
    /\ lineComplexity = None
    /\ scored = NotScored
    /\ ClientIdle

SnapshotNext ==
    \/ NoFile
    \/ GetTree

SnapshotSpec == SnapshotInit /\ [][SnapshotNext]_vars

(***************************************************************************)
(* The Home page showing <JobStatus jobId={currentJobId}                   *)
(* onComplete={handleJobComplete} /> for the job of an earlier upload,     *)
(* whose worker is running.                                                *)
(*                                                                         *)
(* handleJobComplete is a new function on every render of Home, and the    *)
(* effect of JobStatus depends on [jobId, onComplete]: every re-render of  *)
(* Home runs the effect's cleanup and then the effect again. One effect    *)
(* instance is current; of the instances already cleaned up only their     *)
(* timers are kept. Timers fire at any time after they were set.           *)
(***************************************************************************)
MaxPolls == 2    \* status requests of one effect instance in flight at a time
MaxLate == 1     \* timers of cleaned-up instances that are told apart
MaxCalls == 2    \* calls of onComplete that are told apart
MaxUploads == 1  \* uploads the user starts

\* n + 1, or max for "max or more"
Counted(n, max) == IF n < max THEN n + 1 ELSE max

\* {tree && currentJobId && <JobStatus jobId={currentJobId} ... />}
shown == treeSet /\ currentJobId # None

\* await fetch(...) rejects, or response.json() does
FetchRejected == [status |-> -1]

\* what the server leaves alone while the page runs
ServerUnchanged ==
    /\ UNCHANGED locatorVars
    /\ UNCHANGED reconcilerVars
    /\ UNCHANGED <<request, jobs, workers, job, uploadResponse, endpointVars,
                   classifierVars, scoreVars>>

\* the body of the effect: pollJobStatus() is called (its fetch is sent) and
\* setTimeout(startPolling, 3000) is set
RunEffect ==
    /\ isActive' = TRUE
    /\ pollInterval' = FALSE
    /\ startPending' = TRUE
    /\ polls' = <<NoResponse>>

\* the effect's cleanup: isActive = false and clearInterval(pollInterval); the
\* timeout set by setTimeout(startPolling, 3000) is not cleared. The answers
\* to the instance's requests are dropped at if (!isActive) return.
cleanup == IF startPending THEN Counted(lateTimeouts, MaxLate) ELSE lateTimeouts

\* the cleanup of a render that follows a click. React first runs the effect
\* that is still due (the cleanup of the instance before it and the effect,
\* which sets a timeout), then renders and runs the cleanup of that instance.
clickCleanup ==
    LET flushed == IF effectsDue THEN cleanup ELSE lateTimeouts
    IN IF effectsDue \/ startPending THEN Counted(flushed, MaxLate)
       ELSE flushed

\* Home renders after a state update that no click caused and JobStatus is
\* rendered for the first time; its effect runs in a later task
Mount ==
    /\ homeDirty /\ shown /\ ~mounted
    /\ homeDirty' = FALSE
    /\ mounted' = TRUE
    /\ effectsDue' = TRUE
    /\ UNCHANGED <<treeSet, currentJobId, isUploading, uploads, showResults,
                   treeLoads, isActive, pollInterval, startPending, polls,
                   lateTimeouts, lateIntervals, onCompleteCalls, terminalSeen>>
    /\ ServerUnchanged

\* Home renders again after a state update that no click caused; React runs
\* the effects of the render before first. With JobStatus mounted, onComplete
\* is a new function, so the effect is due again: its cleanup and body run in
\* a later task, and until then the instance before stays active.
Rerender ==
    /\ homeDirty /\ (shown <=> mounted) /\ ~effectsDue
    /\ homeDirty' = FALSE
    /\ effectsDue' = mounted
    /\ UNCHANGED <<treeSet, currentJobId, isUploading, uploads, showResults,
                   treeLoads, mounted, isActive, pollInterval, startPending,
                   polls, lateTimeouts, lateIntervals, onCompleteCalls,
                   terminalSeen>>
    /\ ServerUnchanged

\* the effect that is due runs: the cleanup of the instance before, if any,
\* then the body
RunEffects ==
    /\ effectsDue
    /\ effectsDue' = FALSE
    /\ lateTimeouts' = cleanup
    /\ RunEffect
    /\ UNCHANGED <<homeVars, mounted, lateIntervals, onCompleteCalls,
                   terminalSeen>>
    /\ ServerUnchanged

\* a click on 'Upload New File', handleUploadNew: setTree(null),
\* setCurrentJobId(null), setShowResults(false); the render that follows the
\* click unmounts JobStatus at once. The user clicks on a page whose render
\* is up to date.
Unmount ==
    /\ treeSet /\ ~homeDirty
    /\ treeSet' = FALSE
    /\ currentJobId' = None
    /\ showResults' = FALSE
    /\ mounted' = FALSE
    /\ effectsDue' = FALSE
    /\ lateTimeouts' = clickCleanup
    /\ isActive' = FALSE
    /\ pollInterval' = FALSE
    /\ startPending' = FALSE
    /\ polls' = <<>>
    /\ UNCHANGED <<isUploading, uploads, homeDirty, treeLoads,
                   lateIntervals, onCompleteCalls, terminalSeen>>
    /\ ServerUnchanged

\* a click on 'View Analysis Results' / 'Hide Analysis':
\* setShowResults(!showResults); the render that follows the click runs the
\* effect's cleanup and the effect again at once
ToggleResults ==
    /\ shown /\ mounted /\ ~homeDirty
    /\ showResults' = ~showResults
    /\ effectsDue' = FALSE
    /\ lateTimeouts' = clickCleanup
    /\ RunEffect
    /\ UNCHANGED <<treeSet, currentJobId, isUploading, uploads,
                   homeDirty, treeLoads, mounted, lateIntervals,
                   onCompleteCalls, terminalSeen>>
    /\ ServerUnchanged

\* a click on 'Load Enhanced Tree': loadEnhancedTree() sends GET /api/tree
LoadTreeClick ==
    /\ shown /\ mounted /\ ~homeDirty
    /\ treeLoads < MaxPolls
    /\ treeLoads' = treeLoads + 1
    /\ UNCHANGED <<treeSet, currentJobId, isUploading, uploads,
                   showResults, homeDirty, effectVars, lateTimeouts,
                   lateIntervals, onCompleteCalls, terminalSeen>>
    /\ ServerUnchanged

\* the files the user drops on the Dropzone: a small archive, a small file
\* that is no archive, and an archive over the limit
DroppedFiles ==
    {[present |-> TRUE, size |-> SmallUpload, extractable |-> TRUE],
     [present |-> TRUE, size |-> SmallUpload, extractable |-> FALSE],
     [present |-> TRUE, size |-> sizeLimit + 1, extractable |-> TRUE]}

\* handleUpload up to its await: setIsUploading(true), setShowResults(false)
\* and fetch('/api/upload', { method: 'POST', body: formData }). The Dropzone
\* is rendered while tree is null and takes no file while isUploading. The
\* request reaches the upload handler.
handleUpload ==
    /\ ~treeSet /\ ~isUploading /\ ~homeDirty
    /\ uploads < MaxUploads
    /\ pc \in {"idle"} \cup AnsweredAt
    /\ isUploading' = TRUE
    /\ showResults' = FALSE
    /\ uploads' = uploads + 1
    /\ \E file \in DroppedFiles :
           /\ request' = file
           /\ disk' = IF Accepted(file) THEN StoredProject ELSE NoNode
    /\ pc' = "received"
    /\ extractPath' = ExtractDir
    /\ currentPath' = ExtractDir
    /\ depth' = 0
    /\ continues' = 0
    /\ result' = None
    /\ call' = 1
    /\ firstResult' = None
    /\ firstDepth' = 0
    /\ sawError' = {}
    /\ tree' = None
    /\ job' = [id |-> None]
    /\ uploadResponse' = NoResponse
    /\ UNCHANGED <<treeSet, currentJobId, homeDirty, treeLoads,
                   effectVars, lateTimeouts, lateIntervals, onCompleteCalls,
                   terminalSeen>>
    /\ UNCHANGED reconcilerVars
    /\ UNCHANGED <<jobs, workers, endpointVars, classifierVars, scoreVars>>

\* handleUpload after its await: on data.success setTree(data.tree) and
\* setCurrentJobId(data.jobId), else (or when the fetch rejects) an alert;
\* finally setIsUploading(false). JobStatus then follows the new job.
handleUploadAnswered ==
    /\ isUploading
    /\ pc \in AnsweredAt
    /\ \E arrives \in BOOLEAN :
           LET success == arrives /\ uploadResponse.body.success
           IN /\ treeSet' = (treeSet \/ success)
              /\ currentJobId' = IF success THEN uploadResponse.body.jobId
                                 ELSE currentJobId
              /\ onCompleteCalls' = IF success THEN 0 ELSE onCompleteCalls
              /\ terminalSeen' = (terminalSeen /\ ~success)
    /\ isUploading' = FALSE
    /\ homeDirty' = TRUE
    /\ UNCHANGED <<uploads, showResults, treeLoads, effectVars,
                   lateTimeouts, lateIntervals>>
    /\ ServerUnchanged

\* the timeout of the current instance fires: startPolling sets the interval
startPolling ==
    /\ mounted /\ startPending
    /\ startPending' = FALSE
    /\ pollInterval' = TRUE
    /\ UNCHANGED <<homeVars, mounted, effectsDue, isActive, polls, lateTimeouts,
                   lateIntervals, onCompleteCalls, terminalSeen>>
    /\ ServerUnchanged

\* the timeout of an instance already cleaned up fires: its pollInterval is
\* null, so startPolling sets an interval, which nothing clears
lateStartPolling ==
    /\ lateTimeouts > 0
    /\ lateTimeouts' \in IF lateTimeouts = MaxLate
                         THEN {MaxLate, MaxLate - 1}
                         ELSE {lateTimeouts - 1}
    /\ lateIntervals' = Counted(lateIntervals, MaxLate)
    /\ UNCHANGED <<homeVars, effectVars, onCompleteCalls, terminalSeen>>
    /\ ServerUnchanged

\* the interval of the current instance fires: if (isActive) pollJobStatus(),
\* which sends its fetch
IntervalTick ==
    /\ mounted /\ pollInterval /\ isActive
    /\ Len(polls) < MaxPolls
    /\ polls' = Append(polls, NoResponse)
    /\ UNCHANGED <<homeVars, mounted, effectsDue, isActive, pollInterval,
                   startPending,
                   lateTimeouts, lateIntervals, onCompleteCalls, terminalSeen>>
    /\ ServerUnchanged

\* a status request reaches the server and GET /api/ingest/[jobId]/status
\* reads the row as it is now; or the fetch rejects
ServeStatus ==
    /\ \E i \in DOMAIN polls :
           /\ polls[i] = NoResponse
           /\ \E arrives \in BOOLEAN, storeUp \in BOOLEAN :
                  polls' = [polls EXCEPT ![i] =
                                IF arrives THEN statusGET(currentJobId, storeUp)
                                ELSE FetchRejected]
    /\ UNCHANGED <<homeVars, mounted, effectsDue, isActive, pollInterval,
                   startPending,
                   lateTimeouts, lateIntervals, onCompleteCalls, terminalSeen>>
    /\ ServerUnchanged

\* pollJobStatus after its await: it handles the answer the server gave when
\* it served the request, whatever the row holds by now
PollAnswered ==
    /\ mounted /\ isActive
    /\ \E i \in DOMAIN polls :
           /\ polls[i] # NoResponse
           /\ LET rejected == polls[i] = FetchRejected
                  success == ~rejected /\ polls[i].body.success
                  terminal == success /\ polls[i].body.job.status \in {"completed", "failed"}
                  completed == success /\ polls[i].body.job.status = "completed"
              IN /\ polls' = SubSeq(polls, 1, i - 1) \o SubSeq(polls, i + 1, Len(polls))
                 \* clearInterval(pollInterval) at a terminal status, in the
                 \* else branch and in the catch
                 /\ pollInterval' = IF terminal \/ ~success THEN FALSE
                                    ELSE pollInterval
                 /\ terminalSeen' = (terminalSeen \/ terminal)
                 \* onComplete(): handleJobComplete calls loadEnhancedTree()
                 \* and setShowResults(true)
                 /\ onCompleteCalls' = IF completed THEN Counted(onCompleteCalls, MaxCalls)
                                       ELSE onCompleteCalls
                 /\ treeLoads' = IF completed THEN Counted(treeLoads, MaxPolls)
                                 ELSE treeLoads
                 /\ showResults' = (showResults \/ completed)
                 /\ homeDirty' = (homeDirty \/ (completed /\ ~showResults))
    /\ UNCHANGED <<treeSet, currentJobId, isUploading, uploads,
                   mounted, effectsDue, isActive, startPending, lateTimeouts,
                   lateIntervals>>
    /\ ServerUnchanged

\* data.success && data.tree of the answer of GET /api/tree: the answer has
\* success true and a tree when the store could be read and
\* files.length !== 0
treeLoaded(storeUp, files, folders) == storeUp /\ ~noFiles(files, folders)

\* loadEnhancedTree after its await: GET /api/tree has answered or the fetch
\* has rejected; setTree on a tree parsed from the response is always a state
\* update, also after handleUploadNew
TreeAnswered ==
    /\ treeLoads > 0
    \* at MaxPolls, which stands for MaxPolls or more, the count may stay
    /\ treeLoads' \in IF treeLoads = MaxPolls
                      THEN {MaxPolls, MaxPolls - 1}
                      ELSE {treeLoads - 1}
    /\ \E arrives \in BOOLEAN, storeUp \in BOOLEAN,
          files \in findManyFiles, folders \in findManyFolders :
           LET loaded == arrives /\ treeLoaded(storeUp, files, folders)
           IN /\ treeSet' = (treeSet \/ loaded)
              /\ homeDirty' = (homeDirty \/ loaded)
    /\ UNCHANGED <<currentJobId, isUploading, uploads, showResults,
                   effectVars, lateTimeouts, lateIntervals, onCompleteCalls,
                   terminalSeen>>
    /\ ServerUnchanged

\* Home after its first effect has read lastUploadedTree and lastJobId from
\* localStorage: setTree and setCurrentJobId wait for their render. The
\* server holds the row of that job and no request.
ClientInit ==
    /\ ServerHolding({EarlierJob}, "idle")
    /\ Cardinality(db.files) <= 1
    /\ treeSet = TRUE
    /\ currentJobId = EarlierJob.id
    /\ isUploading = FALSE
    /\ uploads = 0
    /\ showResults = FALSE
    /\ homeDirty = TRUE
    /\ treeLoads = 0
    /\ mounted = FALSE
    /\ effectsDue = FALSE
    /\ isActive = FALSE
    /\ pollInterval = FALSE
    /\ startPending = FALSE
    /\ polls = <<>>
    /\ lateTimeouts = 0
    /\ lateIntervals = 0
    /\ onCompleteCalls = 0
    /\ terminalSeen = FALSE

\* the page, the worker and the upload handler on the files dropped: the
\* small archive holds a project at its top, which findActualRoot returns at
\* once
ClientNext ==
    \/ Mount
    \/ Rerender
    \/ RunEffects
    \/ Unmount
    \/ ToggleResults
    \/ LoadTreeClick
    \/ handleUpload
    \/ handleUploadAnswered
    \/ startPolling
    \/ lateStartPolling
    \/ IntervalTick
    \/ ServeStatus
    \/ PollAnswered
    \/ TreeAnswered
    \/ WorkerStart
    \/ WorkerComplete
    \/ WorkerFail
    \/ TooLarge
    \/ WriteFails
    \/ ExtractFails
    \/ Extract
    \/ GoodRoot
    \/ BuildTree
    \/ CreateJob
    \/ CreateJobFails
    \/ LaunchWorker
    \/ LaunchWorkerFails
    \/ Respond
    \/ UnlinkFails

ClientSpec == ClientInit /\ [][ClientNext]_vars

\* the same page when the user leaves it alone: no click and no upload
WatchNext ==
    \/ Mount
    \/ Rerender
    \/ RunEffects
    \/ startPolling
    \/ lateStartPolling
    \/ IntervalTick
    \/ ServeStatus
    \/ PollAnswered
    \/ TreeAnswered
    \/ WorkerStart
    \/ WorkerComplete
    \/ WorkerFail

\* the browser runs every render, timer, request and response that is due;
\* the worker need not finish
ClientLiveSpec ==
    /\ ClientInit
    /\ [][WatchNext]_vars
    /\ WF_vars(Mount)
    /\ WF_vars(Rerender)
    /\ WF_vars(RunEffects)
    /\ WF_vars(startPolling)
    /\ WF_vars(lateStartPolling)
    /\ WF_vars(IntervalTick)
    /\ WF_vars(ServeStatus)
    /\ WF_vars(PollAnswered)
    /\ WF_vars(TreeAnswered)


(***************************************************************************)
(* Properties of the Root Locator                                          *)
(***************************************************************************)
\* C1: findActualRoot terminates: every pass through the loop body that does
\* not return or leave the loop moves one level deeper and increases depth, so
\* the number of passes that ended in `continue` equals depth (at most 10).
C1_EveryContinueDescends == continues = depth /\ depth <= maxDepth

\* C2 as stated: whenever a second call on the returned path returns, it
\* returns that same path, also when the first call stopped at the depth bound.
C2_Idempotent == pc = "relocated" => result = firstResult

\* C2 amended: the same, for a first call that returned before the depth bound
\* was reached.
C2_IdempotentBelowBound ==
    (pc = "relocated" /\ firstDepth < maxDepth) => result = firstResult

C2_Witness ==
    /\ pc = "relocated"
    /\ firstDepth > 0 /\ firstDepth < maxDepth
    /\ firstResult # ExtractDir
    /\ result = firstResult

\* C3 as stated: a call that met any filesystem error (a failed listing, a
\* failed stat of an entry or of src) returns the original extraction path.
C3_AnyErrorReturnsExtractPath ==
    (result # None /\ sawError # {}) => result = extractPath

\* C3 amended: findActualRoot never throws; a failed listing of the current
\* directory, at any depth, makes it return the original extraction path; a
\* failed stat of an entry or of src is skipped and the call returns the
\* directory the search then ends in.
C3_FailSoft ==
    /\ pc # "threw"
    /\ "readdir" \in sawError => result = extractPath
    /\ (result # None /\ sawError # {} /\ "readdir" \notin sawError)
           => result = currentPath

C3_Witness ==
    /\ pc = "located"
    /\ "readdir" \in sawError
    /\ depth > 0
    /\ currentPath # extractPath
    /\ result = extractPath

\* a wrapper: listed without error, exactly one subdirectory among the entries
\* the locator keeps, no source file, score below 3
IsWrapper(p) ==
    LET listing == readdir(p)
        valid == validEntriesOf(listing.entries)
    IN /\ listing.ok
       /\ Len(directoriesOf(p, valid)) = 1
       /\ sourceFilesOf(valid) = <<>>
       /\ rootScore(p, valid) < 3

OnlySubdirectory(p) ==
    pathJoin(p, directoriesOf(p, validEntriesOf(readdir(p).entries))[1])

\* the directory reached from p through at most k wrappers
RECURSIVE ChainEnd(_, _)
ChainEnd(p, k) ==
    IF k = 0 \/ ~IsWrapper(p) THEN p ELSE ChainEnd(OnlySubdirectory(p), k - 1)

HasGoodScore(p) ==
    /\ readdir(p).ok
    /\ rootScore(p, validEntriesOf(readdir(p).entries)) >= 3

\* C4: when the extraction directory starts a chain of fewer than 10 wrappers
\* that ends in a directory of score >= 3, the handler's call returns that
\* directory.
C4_WrappersSkipped ==
    (pc = "located" /\ call = 1 /\ HasGoodScore(ChainEnd(ExtractDir, 10 - 1)))
        => result = ChainEnd(ExtractDir, 10 - 1)

C4_Witness ==
    /\ pc = "located" /\ call = 1
    /\ depth = 9
    /\ HasGoodScore(ChainEnd(ExtractDir, 10 - 1))
    /\ result = ChainEnd(ExtractDir, 10 - 1)
    /\ result # ExtractDir


(***************************************************************************)
(* Properties of the Tree Builder                                          *)
(***************************************************************************)
HasChildren(node) == "children" \in DOMAIN node
ChildrenOf(node) == IF HasChildren(node) THEN node.children ELSE <<>>

\* the nodes of a forest, parents before children
RECURSIVE Preorder(_)
Preorder(nodes) ==
    IF nodes = <<>> THEN <<>>
    ELSE <<Head(nodes)>> \o Preorder(ChildrenOf(Head(nodes)) \o Tail(nodes))

NodesOf(root) == Preorder(<<root>>)
NodesBelow(root) == Preorder(ChildrenOf(root))

TypeRank(type) == CASE type = "dir" -> 0 [] type = "file" -> 1 [] type = "function" -> 2

\* dirs, then files, then functions; within one type ascending by name
InOrder(children) ==
    \A i \in 1..Len(children) : \A j \in (i + 1)..Len(children) :
        \/ TypeRank(children[i].type) < TypeRank(children[j].type)
        \/ /\ children[i].type = children[j].type
           /\ localeCompare(children[i].name, children[j].name) <= 0

Sorted(root) ==
    \A k \in 1..Len(NodesOf(root)) : InOrder(ChildrenOf(NodesOf(root)[k]))

JoinedPath(parent, child) ==
    IF parent.path = <<>> THEN child.name
    ELSE parent.path \o <<"/">> \o child.name

\* C9: in the tree generateTree(root, root) returns, the root has path "", no
\* two nodes share a path, and every other node's path is its parent's path
\* joined by '/' with its own name (the bare name under the root).
C9_PathsUnique ==
    pc = "treeBuilt" =>
        LET nodes == NodesOf(tree)
        IN /\ tree.path = <<>>
           /\ \A i, j \in 1..Len(nodes) : i # j => nodes[i].path # nodes[j].path
           /\ \A i \in 1..Len(nodes) :
                  \A c \in 1..Len(ChildrenOf(nodes[i])) :
                      nodes[i].children[c].path = JoinedPath(nodes[i], nodes[i].children[c])

C9_Witness ==
    /\ pc = "treeBuilt"
    /\ result # ExtractDir
    /\ C9_PathsUnique
    /\ \E i \in 1..Len(NodesOf(tree)) :
           Len(split(NodesOf(tree)[i].path)) >= 2

\* the names the claim lists
ExcludedAsStated(name) ==
    \/ startsWith(name, <<".">>)
    \/ name \in {S_MACOSX, S_Thumbs_db, S_node_modules, S_dist, S_build}

\* ... and every name that starts with __MACOSX
ExcludedByPrefix(name) ==
    ExcludedAsStated(name) \/ startsWith(name, S_MACOSX)

Excluded(name, byPrefix) ==
    IF byPrefix THEN ExcludedByPrefix(name) ELSE ExcludedAsStated(name)

\* the relative paths of everything below the directory `node` that is not
\* excluded, is not beneath an excluded entry, and can be read
RECURSIVE ShouldAppear(_, _, _)
ShouldAppear(node, rel, byPrefix) ==
    IF node.kind # "dir" \/ ~node.readOk THEN {}
    ELSE UNION {
        LET e == node.entries[i]
            p == IF rel = <<>> THEN e.name ELSE rel \o <<"/">> \o e.name
        IN IF Excluded(e.name, byPrefix) \/ ~e.statOk THEN {}
           ELSE {p} \cup ShouldAppear(e, p, byPrefix)
        : i \in 1..Len(node.entries)}

PathsBelow(root) == {NodesBelow(root)[k].path : k \in 1..Len(NodesBelow(root))}

\* C10 as stated: below the root the tree has no node whose name starts with
\* '.' or is __MACOSX, Thumbs.db, node_modules, dist or build, nothing beneath
\* such an entry, and every other entry that can be read.
C10_ExclusionAsStated ==
    pc = "treeBuilt" =>
        /\ \A k \in 1..Len(NodesBelow(tree)) :
               ~ExcludedAsStated(NodesBelow(tree)[k].name)
        /\ PathsBelow(tree) = ShouldAppear(Resolve(result), <<>>, FALSE)

\* C10 amended: the same with "starts with '.' or with __MACOSX" in place of
\* "starts with '.' or is __MACOSX".
C10_ExclusionByPrefix ==
    pc = "treeBuilt" =>
        /\ \A k \in 1..Len(NodesBelow(tree)) :
               ~ExcludedByPrefix(NodesBelow(tree)[k].name)
        /\ PathsBelow(tree) = ShouldAppear(Resolve(result), <<>>, TRUE)

\* a directory holding .git, node_modules and one source file: only the file
C10_Witness ==
    /\ pc = "treeBuilt"
    /\ Includes(readdir(result).entries, S_dot_git)
    /\ Includes(readdir(result).entries, S_node_modules)
    /\ Includes(readdir(result).entries, S_a_ts)
    /\ Len(tree.children) = 1
    /\ tree.children[1].name = S_a_ts
    /\ tree.children[1].type = "file"

(***************************************************************************)
(* Properties of the Tree Reconciler                                       *)
(***************************************************************************)
\* the last GET /api/tree answered with a tree
Answered == gets > 0 /\ response.answer.body.success

\* the last GET /api/tree was answered from the rows of the store
Listed == gets > 0 /\ response.storeUp

RecordPaths == {f.path : f \in db.files} \cup {d.path : d \in db.folders}

\* the ids of the nodes registered for the rows with path p
RecordIds(p) == {S_file_ \o f.id : f \in {x \in db.files : x.path = p}}
                    \cup {S_folder_ \o d.id : d \in {x \in db.folders : x.path = p}}

\* every row's path is a repository-relative path: no empty segment (no
\* leading, trailing or doubled '/')
WellFormedRows ==
    \A p \in RecordPaths : \A i \in 1..Len(split(p)) : split(p)[i] # <<>>

IsPathNode(node) == node.type \in {"dir", "file"}

\* the positions, in the pre-order of the tree, of the dir/file nodes at path p
PathNodes(nodes, p) ==
    {k \in 1..Len(nodes) : IsPathNode(nodes[k]) /\ nodes[k].path = p}

\* from `node` down there is a chain of dir/file nodes, one for each of the
\* segments in turn, each at its parent's path extended by the segment
RECURSIVE OnChain(_, _)
OnChain(node, segs) ==
    \/ segs = <<>>
    \/ \E c \in 1..Len(ChildrenOf(node)) :
           /\ IsPathNode(node.children[c])
           /\ node.children[c].name = Head(segs)
           /\ node.children[c].path = JoinedPath(node, node.children[c])
           /\ OnChain(node.children[c], Tail(segs))

\* the reconciled tree's root has path ""; for every path of a File or Folder
\* row exactly one dir/file node reachable from the root has that path, it is
\* the node of a row with that path, and the nodes from the root down to it
\* are the nodes of the path's prefixes, one per segment
Complete(answer) ==
    LET nodes == NodesOf(answer)
    IN /\ answer.path = <<>>
       /\ \A p \in RecordPaths :
              /\ Cardinality(PathNodes(nodes, p)) = 1
              /\ \A k \in PathNodes(nodes, p) : nodes[k].id \in RecordIds(p)
              /\ OnChain(answer, split(p))

\* C5 as stated: for every set of File and Folder rows the reconciled tree is
\* complete: one node per row path, reachable from the root, on a chain of
\* its prefixes' nodes.
C5_CompleteForEveryInput == Answered => Complete(response.answer.body.tree)

\* C5 amended: the same for every set of File and Folder rows whose paths
\* have no empty segment (no leading, trailing or doubled '/').
C5_Complete ==
    (Answered /\ WellFormedRows) => Complete(response.answer.body.tree)

\* files src/app/api/c.ts and src/a.ts with a folder row for src only
C5_Witness ==
    /\ Answered /\ WellFormedRows
    /\ RecordPaths = {P_src_app_api_c_ts, P_src_a_ts, P_src}
    /\ Len(response.answer.body.tree.children) = 1
    /\ response.answer.body.tree.children[1].id = S_folder_ \o <<"d", "1">>
    /\ OnChain(response.answer.body.tree, split(P_src_app_api_c_ts))
    /\ OnChain(response.answer.body.tree, split(P_src_a_ts))

ProperPrefixes(p) ==
    {joinSlash(SubSeq(split(p), 1, k)) : k \in 1..(Len(split(p)) - 1)}

\* the prefixes of row paths that have no row of their own
ImpliedPaths == UNION {ProperPrefixes(p) : p \in RecordPaths} \ RecordPaths

IsUnder(q, p) == startsWith(p, q \o <<"/">>)

IsSynthesized(node) ==
    "type" \in DOMAIN node.metadata /\ node.metadata.type = "directory"

\* for every proper prefix of a row path that has no row of its own the
\* reconciled tree has exactly one node, a synthesized dir named after the
\* prefix's last segment, with every row under the prefix among its
\* descendants; and no synthesized dir stands at a path that has a row
Synthesis(answer) ==
    LET nodes == NodesOf(answer)
    IN /\ \A q \in ImpliedPaths :
              /\ Cardinality(PathNodes(nodes, q)) = 1
              /\ \A k \in PathNodes(nodes, q) :
                     /\ nodes[k].type = "dir"
                     /\ IsSynthesized(nodes[k])
                     /\ nodes[k].id = S_dir_ \o q
                     /\ nodes[k].name = split(q)[Len(split(q))]
                     /\ \A p \in RecordPaths : IsUnder(q, p) =>
                            PathNodes(NodesBelow(nodes[k]), p) # {}
       /\ \A k \in 1..Len(nodes) :
              IsSynthesized(nodes[k]) => nodes[k].path \notin RecordPaths

\* C6 as stated: for every set of rows, every proper prefix of a row path
\* without a row of its own has exactly one synthesized dir holding the rows
\* under it, and no dir is synthesized at a path that has a row.
C6_SynthesisForEveryInput == Answered => Synthesis(response.answer.body.tree)

\* C6 amended: the same for every set of rows whose paths have no empty
\* segment.
C6_Synthesis ==
    (Answered /\ WellFormedRows) => Synthesis(response.answer.body.tree)

\* files src/a.ts and src/b.ts, no folder row: one dir src under the root with
\* both files as its children
C6_Witness ==
    /\ Answered /\ WellFormedRows
    /\ db.folders = {}
    /\ {f.path : f \in db.files} = {P_src_a_ts, P_src_b_ts}
    /\ Len(response.answer.body.tree.children) = 1
    /\ response.answer.body.tree.children[1].id = S_dir_ \o P_src
    /\ response.answer.body.tree.children[1].name = S_src
    /\ response.answer.body.tree.children[1].type = "dir"
    /\ Len(response.answer.body.tree.children[1].children) = 2
    /\ response.answer.body.tree.children[1].children[1].path = P_src_a_ts
    /\ response.answer.body.tree.children[1].children[2].path = P_src_b_ts

\* C7: two requests over the same rows are answered with the same tree,
\* children in the same order at every node, whatever order the store listed
\* the files, the folders and each file's functions in.
C7_Deterministic ==
    (gets >= 2 /\ response.storeUp /\ firstResponse.storeUp)
        => response = firstResponse

\* C8: in the tree generateTree returns and in the tree buildEnhancedTree
\* returns, every node's children are ordered dirs first, then files, then
\* functions, and within one type in ascending name order.
C8_SortOrder ==
    /\ pc = "treeBuilt" => Sorted(tree)
    /\ Answered => Sorted(response.answer.body.tree)

\* an uploaded directory listing package.json before src, and rows for
\* README.md and src/b.ts, whose functions are g and b
C8_Witness ==
    /\ pc = "responded"
    /\ readdir(result).entries = <<S_package_json, S_src>>
    /\ Len(tree.children) = 2
    /\ tree.children[1].name = S_src
    /\ tree.children[2].name = S_package_json
    /\ Answered
    /\ RecordPaths = {P_README_md, P_src_b_ts}
    /\ Len(response.answer.body.tree.children) = 2
    /\ response.answer.body.tree.children[1].type = "dir"
    /\ response.answer.body.tree.children[2].name = P_README_md
    /\ Len(response.answer.body.tree.children[1].children[1].children) = 2
    /\ response.answer.body.tree.children[1].children[1].children[1].name
           = <<"wrench", " ", "b", "(", ")">>
    /\ response.answer.body.tree.children[1].children[1].children[2].name
           = <<"wrench", " ", "g", "(", ")">>

(***************************************************************************)
(* The Tree Builder's failure policy                                       *)
(***************************************************************************)
\* <<relative path, entry>> for every entry below the directory `node` that
\* generateTree comes to: not excluded, and every directory above it can be
\* statted and listed
RECURSIVE Visited(_, _)
Visited(node, rel) ==
    IF node.kind # "dir" \/ ~node.statOk \/ ~node.readOk THEN {}
    ELSE UNION {
        LET e == node.entries[i]
            p == IF rel = <<>> THEN e.name ELSE rel \o <<"/">> \o e.name
        IN IF ~IsTreeEntry(e.name) THEN {}
           ELSE {<<p, e>>} \cup Visited(e, p)
        : i \in 1..Len(node.entries)}

CannotBeStatted(e) == ~e.statOk
CannotBeListed(e) == e.statOk /\ e.kind = "dir" /\ ~e.readOk
Sound(e) == ~CannotBeStatted(e) /\ ~CannotBeListed(e)

VisitedPaths(Which(_)) ==
    {v[1] : v \in {w \in Visited(Resolve(result), <<>>) : Which(w[2])}}

NodeWithPath(root, p) ==
    LET nodes == NodesBelow(root)
    IN nodes[CHOOSE k \in 1..Len(nodes) : nodes[k].path = p]

\* C11 as stated: whenever the root can be statted generateTree returns a tree,
\* in which no entry that cannot be statted or cannot be listed has a node and
\* every other non-excluded entry has one.
C11_BadEntriesHaveNoNode ==
    /\ pc = "treeBuilt" => stat(result).ok
    /\ (pc = "failed" /\ Accepted(request)) => ~stat(result).ok
    /\ pc = "treeBuilt" => PathsBelow(tree) = VisitedPaths(Sound)

\* C11 amended: whenever the root can be statted generateTree returns a tree;
\* an entry that cannot be statted has no node, a directory that can be statted
\* but not listed has a dir node without children, and every other
\* non-excluded entry has a node.
C11_FailurePolicy ==
    /\ pc = "treeBuilt" => stat(result).ok
    /\ (pc = "failed" /\ Accepted(request)) => ~stat(result).ok
    /\ pc = "treeBuilt" =>
           /\ PathsBelow(tree) =
                  VisitedPaths(Sound) \cup VisitedPaths(CannotBeListed)
           /\ PathsBelow(tree) \cap VisitedPaths(CannotBeStatted) = {}
           /\ \A p \in VisitedPaths(CannotBeListed) :
                  /\ NodeWithPath(tree, p).type = "dir"
                  /\ NodeWithPath(tree, p).children = <<>>

\* a directory with entries that cannot be listed, next to a sound entry: the
\* tree has both, the directory without children
C11_Witness ==
    /\ pc = "treeBuilt"
    /\ \E v \in Visited(Resolve(result), <<>>) :
           /\ CannotBeListed(v[2])
           /\ v[2].entries # <<>>
           /\ v[1] \in PathsBelow(tree)
    /\ VisitedPaths(Sound) # {}
    /\ VisitedPaths(Sound) \subseteq PathsBelow(tree)

\* an entry that cannot be statted, next to a sound entry: the tree has only
\* the sound one
C11_WitnessStat ==
    /\ pc = "treeBuilt"
    /\ VisitedPaths(CannotBeStatted) # {}
    /\ VisitedPaths(Sound) # {}
    /\ PathsBelow(tree) = VisitedPaths(Sound)

(***************************************************************************)
(* The Job lifecycle                                                       *)
(***************************************************************************)
JobIds(rows) == {j.id : j \in rows}
JobWithId(rows, id) == CHOOSE j \in rows : j.id = id

LegalMove(from, to) ==
    \/ from = "pending" /\ to = "processing"
    \/ from = "processing" /\ to \in {"completed", "failed"}

\* C12: a row enters the Job table with status pending; a row's status
\* changes only from pending to processing and from processing to completed
\* or failed, so a completed or failed row keeps its status; no row leaves
\* the table.
C12_JobLifecycle ==
    [][/\ \A id \in JobIds(jobs') \ JobIds(jobs) :
              JobWithId(jobs', id).status = "pending"
       /\ \A j \in jobs :
              /\ j.id \in JobIds(jobs')
              /\ \/ JobWithId(jobs', j.id).status = j.status
                 \/ LegalMove(j.status, JobWithId(jobs', j.id).status)
       /\ \A j \in jobs :
              j.status \in {"completed", "failed"} =>
                  JobWithId(jobs', j.id).status = j.status]_vars

\* the uploaded job has been through pending and processing and is completed,
\* and the status endpoint has reported it
C12_Witness ==
    /\ pc = "responded"
    /\ \E j \in jobs : j.id = job.id /\ j.status = "completed"
    /\ job.status = "pending"
    /\ statusResponse # NoResponse
    /\ statusResponse.answer.status = 200
    /\ statusResponse.answer.body.job.status = "completed"

(***************************************************************************)
(* The Complexity Classifier                                               *)
(***************************************************************************)
\* C13: for all integers start and end the classifier returns low exactly
\* when end - start < 10, medium exactly when 10 <= end - start < 50 and high
\* exactly when end - start >= 50; it returns one of the three for every
\* input.
C13_Boundaries ==
    lineComplexity # None =>
        LET span == lineEnd - lineStart
        IN /\ lineComplexity \in {"low", "medium", "high"}
           /\ lineComplexity = "low" <=> span < 10
           /\ lineComplexity = "medium" <=> (10 <= span /\ span < 50)
           /\ lineComplexity = "high" <=> span >= 50

\* a span of exactly 50 lines, from a negative start: high
C13_Witness ==
    /\ lineStart < 0
    /\ lineEnd - lineStart = 50
    /\ lineComplexity = "high"

\* the other boundary values of the claim: 9 -> low, 10 -> medium, 49 -> medium
C13_WitnessLow == lineEnd - lineStart = 9 /\ lineComplexity = "low"
C13_WitnessMedium == lineEnd - lineStart = 10 /\ lineComplexity = "medium"
C13_WitnessUpperMedium == lineEnd - lineStart = 49 /\ lineComplexity = "medium"

(***************************************************************************)
(* Complexity as the three consumers report it                             *)
(***************************************************************************)
FunctionNodes(root) ==
    {NodesOf(root)[k] : k \in {i \in 1..Len(NodesOf(root)) :
                                   NodesOf(root)[i].type = "function"}}

\* the function nodes of the reconciled tree carry the classifier's class
C14_TreeUsesClassifier ==
    Answered =>
        \A n \in FunctionNodes(response.answer.body.tree) : \A f \in findManyFunctions :
            n.id = S_function_ \o f.id =>
                n.metadata.complexity = calculateLineComplexity(f.start, f.end)

\* the node-detail response reports, for each function, the classifier's class
C14_DetailUsesClassifier ==
    (nodeResponse # NoResponse /\ nodeResponse.answer.status = 200) =>
        LET functions == nodeResponse.answer.body.functions
        IN \A i \in 1..Len(functions) : \A f \in findManyFunctions :
               functions[i].id = f.id =>
                   functions[i].complexity = complexityFromLines(f)

\* the stats endpoint counts each function in the bucket of its class
C14_StatsUseClassifier ==
    (statsResponse # NoResponse /\ statsResponse.answer.status = 200) =>
        \A class \in {"low", "medium", "high"} :
            statsResponse.answer.body.complexityStats[class]
                = Cardinality({f \in findManyFunctions : bucketByLines(f) = class})

\* C14: for every persisted function, the complexity that the function node of
\* the reconciled tree, the node-detail response and the stats endpoint's
\* buckets report is the class calculateLineComplexity gives for the
\* function's start and end.
C14_DerivedIdentically ==
    /\ C14_TreeUsesClassifier
    /\ C14_DetailUsesClassifier
    /\ C14_StatsUseClassifier

(***************************************************************************)
(* Not-found answers                                                       *)
(***************************************************************************)
FilePaths == {f.path : f \in db.files}

\* C15: when the store can be read, the status endpoint answers 404 exactly
\* for a job id no row has and 200 with the row's status for every id that
\* has a row (pending and processing included), and the node-detail endpoint
\* answers 404 exactly for a path no File row has; 500 is answered only when
\* the store cannot be read, the path cannot be decoded or a row cannot be
\* rendered, never for an unknown key.
C15_NotFoundDistinct ==
    [][/\ statusResponse' # statusResponse =>
              LET r == statusResponse'
              IN /\ (r.storeUp /\ r.jobId # <<>>) =>
                        /\ r.jobId \notin JobIds(jobs) <=> r.answer.status = 404
                        /\ r.jobId \in JobIds(jobs) =>
                               /\ r.answer.status = 200
                               /\ r.answer.body.success
                               /\ r.answer.body.job.status
                                      = JobWithId(jobs, r.jobId).status
                 /\ r.answer.status = 500 => ~r.storeUp
       /\ nodeResponse' # nodeResponse =>
              LET r == nodeResponse'
                  filePath == decodeURIComponent(r.path)
              IN /\ (r.storeUp /\ filePath.ok) =>
                        /\ filePath.value \notin FilePaths
                               <=> r.answer.status = 404
                        /\ r.answer.status \in {200, 404, 500}
                 /\ (r.answer.status = 500 /\ r.storeUp /\ filePath.ok) =>
                        filePath.value \in FilePaths]_vars

\* job 1 is being processed; the status endpoint was asked for job 2 and the
\* node-detail endpoint for src/c.py, neither of which has a row: both
\* answered 404
C15_Witness ==
    /\ \E j \in jobs : j.id = <<"job", 1>> /\ j.status = "processing"
    /\ statusResponse # NoResponse
    /\ statusResponse.jobId = <<"job", 2>>
    /\ statusResponse.storeUp
    /\ statusResponse.answer.status = 404
    /\ db.files # {}
    /\ nodeResponse # NoResponse
    /\ nodeResponse.storeUp
    /\ decodeURIComponent(nodeResponse.path).value = P_src \o <<"/">> \o S_c_py
    /\ nodeResponse.answer.status = 404

\* the status endpoint answered 200 for a job that is still pending
C15_WitnessPending ==
    /\ statusResponse # NoResponse
    /\ statusResponse.answer.status = 200
    /\ statusResponse.answer.body.job.status = "pending"
    /\ \E j \in jobs : j.status = "pending"

(***************************************************************************)
(* The upload handler: input errors, the Job row and the worker            *)
(***************************************************************************)
InputError(file) ==
    \/ ~file.present
    \/ file.size > 25 * 1024 * 1024
    \/ ~file.extractable

UploadAnswered == pc \in AnsweredAt

\* C16: for a request with no file, with an archive larger than 25 MB or with
\* an archive that cannot be extracted, the Job table gets no row and no
\* worker is spawned, at any point of the handler.
C16_NoJobOnInputError ==
    InputError(request) => (jobs = {} /\ workers = {})

\* an archive within the limit that cannot be extracted has been answered
C16_Witness ==
    /\ request.present
    /\ request.size <= 25 * 1024 * 1024
    /\ ~request.extractable
    /\ UploadAnswered
    /\ uploadResponse.status = 500
    /\ jobs = {}
    /\ workers = {}

GenericError(answer) ==
    answer.status = 500 \/ answer.body.error = "Internal server error"

\* a missing file is answered 400 'No file provided', and an archive
\* 400 'File too large (max 25MB)' exactly when its size is above
\* 25 * 1024 * 1024
C17_MissingAndOversizeSpecific ==
    UploadAnswered =>
        /\ ~request.present =>
               /\ uploadResponse.status = 400
               /\ uploadResponse.body.error = "No file provided"
        /\ request.present =>
               (request.size > 25 * 1024 * 1024
                   <=> /\ uploadResponse.status = 400
                       /\ uploadResponse.body.error = "File too large (max 25MB)")

\* C17: a missing file, an archive above 25 * 1024 * 1024 bytes (and only
\* such an archive) and an archive that cannot be extracted are each answered
\* with a message of their own, which is not the generic internal-server-error
\* response.
C17_InputErrorsSpecific ==
    /\ C17_MissingAndOversizeSpecific
    /\ (UploadAnswered /\ InputError(request)) => ~GenericError(uploadResponse)

\* an archive of exactly 25 * 1024 * 1024 bytes was accepted and answered
\* with a tree
C17_WitnessAtLimit ==
    /\ request.size = 25 * 1024 * 1024
    /\ pc = "responded"
    /\ uploadResponse.status = 200

\* C18: a worker is spawned only for the id of the row the handler has just
\* created, which is pending and holds the located root, and with that root;
\* the handler has not answered before; the success response carries the
\* built tree and that job's id and follows the spawn; no worker is ever
\* running for an id without a row.
C18_FireAndForget ==
    /\ [](\A w \in workers : w.jobId \in JobIds(jobs))
    /\ [][/\ \A id \in JobIds(jobs') \ JobIds(jobs) :
                 /\ JobWithId(jobs', id).status = "pending"
                 /\ JobWithId(jobs', id).extractPath = result
                 /\ workers' = workers
                 /\ uploadResponse = NoResponse
          /\ \A w \in workers' \ workers :
                 /\ w.jobId \in JobIds(jobs)
                 /\ w.jobId = job.id
                 /\ JobWithId(jobs, w.jobId).status = "pending"
                 /\ JobWithId(jobs, w.jobId).extractPath = result
                 /\ w.extractPath = result
                 /\ uploadResponse = NoResponse
                 /\ uploadResponse' = NoResponse
          /\ (uploadResponse' # uploadResponse /\ uploadResponse'.status = 200) =>
                 /\ uploadResponse'.body.tree = tree
                 /\ uploadResponse'.body.jobId = job.id
                 /\ \E w \in workers : w.jobId = job.id]_vars

\* the handler has answered with the tree and the job id of a project found
\* below the extraction directory, while the job is still pending
C18_Witness ==
    /\ pc = "responded"
    /\ result # extractPath
    /\ uploadResponse.body.jobId = job.id
    /\ uploadResponse.body.tree = tree
    /\ workers = {[jobId |-> job.id, extractPath |-> result]}
    /\ \E j \in jobs : j.id = job.id /\ j.status = "pending"
                          /\ j.extractPath = result

(***************************************************************************)
(* The no-data condition of GET /api/tree                                  *)
(***************************************************************************)
\* C19: GET /api/tree, when it can read the store, answers success false,
\* without a tree and with the 'No analyzed files found' message, exactly when
\* no File row is persisted, whether or not Folder rows are; with at least one
\* File row it answers success true with a tree that has a node for every
\* File row. (When the store cannot be read the answer is the 500 of the
\* handler's catch, which is not the no-data message.)
C19_NoDataCondition ==
    /\ (gets > 0 /\ ~response.storeUp) => response.answer = treeFailed
    /\ Listed =>
            /\ ~response.answer.body.success <=> db.files = {}
            /\ ~response.answer.body.success =>
                   /\ "tree" \notin DOMAIN response.answer.body
                   /\ response.answer.body.error
                          = "No analyzed files found. Please upload and process a project first."
            /\ response.answer.body.success =>
                   /\ "tree" \in DOMAIN response.answer.body
                   /\ \A f \in db.files :
                          \E k \in 1..Len(NodesBelow(response.answer.body.tree)) :
                              NodesBelow(response.answer.body.tree)[k].id = S_file_ \o f.id
                   /\ response.answer.body.stats.files = Cardinality(db.files)

\* Folder rows but no File row: no data
C19_Witness ==
    /\ Listed
    /\ db.files = {}
    /\ Cardinality(db.folders) >= 2
    /\ ~response.answer.body.success
    /\ "tree" \notin DOMAIN response.answer.body

\* one File row and nothing else: success with a tree
C19_WitnessOneFile ==
    /\ Listed
    /\ Cardinality(db.files) = 1
    /\ db.folders = {}
    /\ response.answer.body.success
    /\ Len(NodesBelow(response.answer.body.tree)) >= 1

(***************************************************************************)
(* The root score                                                          *)
(***************************************************************************)
\* the entries of the scored directory, as they are on disk
ScoredEntries == Resolve(currentPath).entries

HowMany(entries, Counts(_)) ==
    Cardinality({i \in 1..Len(entries) : Counts(entries[i])})

Junk(e) ==
    \/ startsWith(e.name, <<".">>)
    \/ startsWith(e.name, S_MACOSX)
    \/ e.name = S_Thumbs_db

HasRecognizedExtension(e) ==
    toLowerCase(extname(e.name))
        \in {sourceExtensions[i] : i \in 1..Len(sourceExtensions)}

HasPreferredExtension(e) ==
    toLowerCase(extname(e.name)) \in {<<".", "t", "s">>, <<".", "t", "s", "x">>}

StatedIndicatorNames ==
    {S_package_json, S_tsconfig_json, S_pyproject_toml, S_Cargo_toml, S_go_mod,
     S_pom_xml}

SrcSubdirectories ==
    {i \in 1..Len(ScoredEntries) :
        ScoredEntries[i].name = S_src /\ ScoredEntries[i].kind = "dir"}

InsideSrc ==
    IF SrcSubdirectories = {} THEN <<>>
    ELSE ScoredEntries[CHOOSE i \in SrcSubdirectories : TRUE].entries

\* the score as the statement gives it
StatedScore ==
    2 * HowMany(ScoredEntries, LAMBDA e : ~Junk(e) /\ HasRecognizedExtension(e))
    + HowMany(ScoredEntries, LAMBDA e : ~Junk(e) /\ e.name \in StatedIndicatorNames)
    + (IF SrcSubdirectories # {} THEN 1 ELSE 0)
    + 3 * HowMany(ScoredEntries,
                  LAMBDA e : /\ ~Junk(e)
                             /\ HasRecognizedExtension(e)
                             /\ HasPreferredExtension(e))
    + (IF SrcSubdirectories # {} THEN 5 ELSE 0)
    + 2 * HowMany(InsideSrc, LAMBDA e : ~Junk(e) /\ HasRecognizedExtension(e))

C20_ScoreAsStated == scored.done => scored.value = StatedScore

CodeIndicatorNames == StatedIndicatorNames \cup {S_main_ts, S_index_ts, S_src}

WrittenWithTs(e) ==
    \/ endsWith(e.name, <<".", "t", "s">>)
    \/ endsWith(e.name, <<".", "t", "s", "x">>)

HasScriptExtension(e) ==
    toLowerCase(extname(e.name))
        \in {<<".", "j", "s">>, <<".", "t", "s">>, <<".", "t", "s", "x">>,
             <<".", "j", "s", "x">>}

EntriesNamedSrc ==
    {i \in 1..Len(ScoredEntries) :
        ScoredEntries[i].name = S_src /\ ~Junk(ScoredEntries[i])}

ListedInsideSrc ==
    IF \E i \in EntriesNamedSrc :
           /\ ScoredEntries[i].kind = "dir"
           /\ ScoredEntries[i].statOk
           /\ ScoredEntries[i].readOk
    THEN ScoredEntries[CHOOSE i \in EntriesNamedSrc : TRUE].entries
    ELSE <<>>

\* C20: the score findActualRoot computes for a directory is, over its
\* entries that are not hidden, do not start with __MACOSX and are not
\* Thumbs.db: 2 per entry with a recognized source extension (compared in
\* lower case), plus 1 per entry named package.json, tsconfig.json,
\* pyproject.toml, Cargo.toml, go.mod, pom.xml, main.ts, index.ts or src
\* (file or directory), plus 3 per source entry whose name ends in .ts or
\* .tsx as written, plus 5 if and only if an entry named src is present
\* (file or directory), plus 2 per entry with a .js, .ts, .tsx or .jsx
\* extension listed in src when src is a directory that can be listed,
\* hidden entries of src included.
C20_RootScore ==
    scored.done =>
        scored.value
            = 2 * HowMany(ScoredEntries,
                          LAMBDA e : ~Junk(e) /\ HasRecognizedExtension(e))
              + HowMany(ScoredEntries,
                        LAMBDA e : ~Junk(e) /\ e.name \in CodeIndicatorNames)
              + 3 * HowMany(ScoredEntries,
                            LAMBDA e : /\ ~Junk(e)
                                       /\ HasRecognizedExtension(e)
                                       /\ WrittenWithTs(e))
              + (IF EntriesNamedSrc # {} THEN 5 ELSE 0)
              + 2 * HowMany(ListedInsideSrc, HasScriptExtension)

\* index.ts (2 + 1 + 3), a src directory holding b.js, c.py and .e.ts
\* (1 + 5 + 2 + 2) and Thumbs.db (nothing): 16
C20_Witness ==
    /\ scored.done
    /\ \E i \in 1..Len(ScoredEntries) : ScoredEntries[i].name = S_index_ts
    /\ \E i \in 1..Len(ScoredEntries) : ScoredEntries[i].name = S_Thumbs_db
    /\ \E i \in SrcSubdirectories : Len(ScoredEntries[i].entries) = 3
    /\ scored.value = 16

\* a file named src and nothing else: 1 + 5
C20_WitnessSrcFile ==
    /\ scored.done
    /\ Len(ScoredEntries) = 1
    /\ ScoredEntries[1].name = S_src
    /\ ScoredEntries[1].kind = "file"
    /\ scored.value = 6

\* A.TS alone: a source file (2) without the .ts bonus
C20_WitnessUpperCase ==
    /\ scored.done
    /\ Len(ScoredEntries) = 1
    /\ ScoredEntries[1].name = S_A_TS
    /\ scored.value = 2

(***************************************************************************)
(* The descent rule of the Root Locator                                    *)
(***************************************************************************)
\* the directory the loop is at, as it is on disk
HereEntries == Resolve(currentPath).entries

\* the names of its subdirectories, in listing order (junk entries left out)
Subdirectories ==
    LET dirs == SelectSeq(HereEntries,
                          LAMBDA e : ~Junk(e) /\ e.kind = "dir" /\ e.statOk)
    IN [i \in 1..Len(dirs) |-> dirs[i].name]

SourcePresent ==
    \E i \in 1..Len(HereEntries) :
        ~Junk(HereEntries[i]) /\ HasRecognizedExtension(HereEntries[i])

ScoreHere == rootScore(currentPath, validEntriesOf(readdir(currentPath).entries))

FirstWhere(names, Fits(_)) ==
    LET I == {i \in 1..Len(names) : Fits(names[i])}
    IN IF I = {} THEN <<>>
       ELSE names[CHOOSE i \in I : \A j \in I : i <= j]

CommonProjectName(name) ==
    name \in {S_src, S_app, S_lib, S_components, S_pages, S_api}

NoiseName(name) ==
    name \in {S_node_modules, S_dist, S_build} \/ startsWith(name, <<".">>)

\* the subdirectory the stated rule enters, <<>> when it enters none
StatedTarget ==
    IF ScoreHere >= 3 \/ SourcePresent \/ Subdirectories = <<>> THEN <<>>
    ELSE IF Len(Subdirectories) = 1 THEN Subdirectories[1]
    ELSE IF FirstWhere(Subdirectories, CommonProjectName) # <<>>
         THEN FirstWhere(Subdirectories, CommonProjectName)
    ELSE FirstWhere(Subdirectories, LAMBDA name : ~NoiseName(name))

\* a pass through the loop body whose listing succeeds
LocatorPass ==
    /\ pc = "locating"
    /\ withinDepth(depth)
    /\ readdir(currentPath).ok
    /\ <<currentPath, pc, continues>>' # <<currentPath, pc, continues>>

FollowsStatedRule ==
    IF StatedTarget # <<>>
    THEN /\ pc' = "locating"
         /\ currentPath' = pathJoin(currentPath, StatedTarget)
         /\ depth' = depth + 1
    ELSE /\ pc' \in {"located", "relocated"}
         /\ result' = currentPath

\* C21: a pass of findActualRoot's loop enters a subdirectory only when the
\* score is below 3 and no source file is directly present: the only
\* subdirectory when there is exactly one, else the first with a common
\* project name, else the first that is not node_modules, dist, build or
\* hidden; in every other case it returns the current directory.
C21_DescentRule == [][LocatorPass => FollowsStatedRule]_vars

\* several subdirectories, every one of them node_modules, dist or build
OnlyNoiseToEnter ==
    /\ ScoreHere < 3
    /\ ~SourcePresent
    /\ Len(Subdirectories) > 1
    /\ StatedTarget = <<>>

\* the same rule for every pass but the one at a directory whose several
\* subdirectories are all noise; that pass neither descends nor returns
C21_DescentRuleWithTarget ==
    [][/\ (LocatorPass /\ ~OnlyNoiseToEnter) => FollowsStatedRule
       /\ (LocatorPass /\ OnlyNoiseToEnter) =>
              /\ pc' = "locating"
              /\ currentPath' = currentPath
              /\ depth' = depth]_vars

(***************************************************************************)
(* Linking in the Tree Reconciler                                          *)
(***************************************************************************)
\* the path one segment up: "" for a top-level path
ParentPath(p) == joinSlash(SubSeq(split(p), 1, Len(split(p)) - 1))

DistinctIds(nodes) ==
    \A i, j \in 1..Len(nodes) : i # j => nodes[i].id # nodes[j].id

\* C22: in the reconciled tree no children list holds a node twice, every
\* node is reached from the root along one parent link only, and the parent
\* of a dir or file node is the node at the path one segment up (the owning
\* file for a function node), also when rows share ancestor prefixes and when
\* a File row and a Folder row carry the same path.
C22_IdempotentLinking ==
    Answered =>
        LET nodes == NodesOf(response.answer.body.tree)
        IN /\ \A k \in 1..Len(nodes) : DistinctIds(ChildrenOf(nodes[k]))
           /\ DistinctIds(nodes)
           /\ \A k \in 1..Len(nodes) :
                  \A c \in 1..Len(ChildrenOf(nodes[k])) :
                      LET parent == nodes[k]
                          child == nodes[k].children[c]
                      IN IF child.type = "function"
                         THEN /\ parent.type = "file"
                              /\ startsWith(child.path, parent.path \o <<"#">>)
                         ELSE /\ IsPathNode(parent)
                              /\ parent.path = ParentPath(child.path)

\* a File row and a Folder row both at docs, next to src/a.ts: one node at
\* docs, under the root
C22_Witness ==
    /\ Answered
    /\ P_docs \in {f.path : f \in db.files}
    /\ P_docs \in {d.path : d \in db.folders}
    /\ P_src_a_ts \in {f.path : f \in db.files}
    /\ Cardinality(PathNodes(NodesOf(response.answer.body.tree), P_docs)) = 1
    /\ \E c \in 1..Len(response.answer.body.tree.children) :
           response.answer.body.tree.children[c].path = P_docs

\* src/a.ts, src/app/api/c.ts and the folder src/app share the prefix src:
\* one node at src with two children
C22_WitnessSharedPrefix ==
    /\ Answered
    /\ RecordPaths = {P_src_a_ts, P_src_app_api_c_ts, P_src_app}
    /\ Len(response.answer.body.tree.children) = 1
    /\ response.answer.body.tree.children[1].path = P_src
    /\ Len(response.answer.body.tree.children[1].children) = 2

(***************************************************************************)
(* Rows whose path has empty segments                                      *)
(***************************************************************************)
\* a leading, trailing or doubled '/'
Malformed(p) == \E i \in 1..Len(split(p)) : split(p)[i] = <<>>

Normalised(p) == joinSlash(SelectSeq(split(p), NonEmpty))

OffendingPaths == {p \in RecordPaths : Malformed(p)}
OtherPaths == RecordPaths \ OffendingPaths

\* the ids of the nodes registered for the offending rows, their functions'
\* nodes included
OffendingIds ==
    UNION {RecordIds(p) : p \in OffendingPaths}
        \cup {S_function_ \o fn.id :
                 fn \in UNION {f.functions :
                                  f \in {x \in db.files : Malformed(x.path)}}}

\* where the other rows and their ancestors stand
PlacedPaths == OtherPaths \cup UNION {ProperPrefixes(p) : p \in OtherPaths}

OthersPlaced(nodes) ==
    \A p \in OtherPaths :
        /\ Cardinality(PathNodes(nodes, p)) = 1
        /\ \A k \in PathNodes(nodes, p) : nodes[k].id \in RecordIds(p)
        /\ OnChain(response.answer.body.tree, split(p))

\* C23: a row whose path has empty segments does not make GET /api/tree fail,
\* the tree holds neither the row's own node nor a node at its normalised
\* path standing in for it, and every other row is placed as it is without
\* the offending row.
C23_MalformedSkipped ==
    Listed =>
        /\ response.answer.body.success <=> db.files # {}
        /\ response.answer.body.success =>
               LET nodes == NodesOf(response.answer.body.tree)
               IN /\ \A k \in 1..Len(nodes) : nodes[k].id \notin OffendingIds
                  /\ \A k \in 2..Len(nodes) :
                         IsPathNode(nodes[k]) => nodes[k].path \in PlacedPaths
                  /\ OthersPlaced(nodes)

\* where the walk over the offending rows' non-empty segments passes
WalkedPaths ==
    {Normalised(p) : p \in OffendingPaths}
        \cup UNION {ProperPrefixes(Normalised(p)) : p \in OffendingPaths}

\* what the code does instead: the row's own node (and its functions) is left
\* out, and a synthesized dir stands at every path its segments pass that no
\* other row has
C23_MalformedReplaced ==
    Listed =>
        /\ response.answer.body.success <=> db.files # {}
        /\ response.answer.body.success =>
               LET nodes == NodesOf(response.answer.body.tree)
               IN /\ \A k \in 1..Len(nodes) : nodes[k].id \notin OffendingIds
                  /\ \A k \in 2..Len(nodes) :
                         IsPathNode(nodes[k]) =>
                             nodes[k].path \in PlacedPaths \cup WalkedPaths
                  /\ OthersPlaced(nodes)
                  /\ \A q \in WalkedPaths \ OtherPaths :
                         /\ Cardinality(PathNodes(nodes, q)) = 1
                         /\ \A k \in PathNodes(nodes, q) :
                                nodes[k].type = "dir" /\ IsSynthesized(nodes[k])

\* the file src//a.ts alone: the tree is src > a.ts, both synthesized dirs
C23_WitnessSubstitute ==
    /\ Answered
    /\ RecordPaths = {P_src__a_ts}
    /\ Len(response.answer.body.tree.children) = 1
    /\ response.answer.body.tree.children[1].id = S_dir_ \o P_src
    /\ Len(response.answer.body.tree.children[1].children) = 1
    /\ response.answer.body.tree.children[1].children[1].id = S_dir_ \o P_src_a_ts
    /\ response.answer.body.tree.children[1].children[1].type = "dir"

(***************************************************************************)
(* Function attachment in the Tree Reconciler                              *)
(***************************************************************************)
ClassOfSpan(start, end) ==
    IF end - start < 10 THEN "low"
    ELSE IF end - start < 50 THEN "medium"
    ELSE "high"

\* the child of `node` standing for the Function row fn of the File row f
IsFunctionChild(child, f, fn) ==
    /\ child.id = S_function_ \o fn.id
    /\ child.type = "function"
    /\ child.path = f.path \o <<"#">> \o fn.name
    /\ child.metadata.startLine = fn.start
    /\ child.metadata.endLine = fn.end
    /\ child.metadata.complexity = ClassOfSpan(fn.start, fn.end)

\* the rows whose path lies below the path of the File row f
RowsBelow(f) == {p \in RecordPaths : IsUnder(f.path, p)}

\* the child of the file node `node` stands on the way to a row below the
\* file's path: a dir/file node one segment below the file's path
IsPathChild(child, node, f) ==
    /\ IsPathNode(child)
    /\ child.path = JoinedPath(node, child)
    /\ \E p \in RowsBelow(f) : child.path = p \/ IsUnder(child.path, p)

\* every node of type file is a File row's node, and every function node is
\* a child of the node of the File row that owns its Function row
FunctionsUnderOwner(nodes) ==
    \A k \in 1..Len(nodes) :
        /\ nodes[k].type = "file" =>
               \E f \in db.files : nodes[k].id = S_file_ \o f.id
        /\ \A c \in 1..Len(ChildrenOf(nodes[k])) :
               nodes[k].children[c].type = "function" =>
                   \E f \in db.files :
                       /\ nodes[k].id = S_file_ \o f.id
                       /\ \E fn \in f.functions :
                              nodes[k].children[c].id = S_function_ \o fn.id

\* the File rows docs and docs/x.md: the node of docs/x.md, with its function
\* k, is the one child of the file node docs
C24_WitnessFileUnderFile ==
    /\ Answered
    /\ RecordPaths = {P_docs, P_docs_x_md}
    /\ db.folders = {}
    /\ Len(response.answer.body.tree.children) = 1
    /\ response.answer.body.tree.children[1].type = "file"
    /\ response.answer.body.tree.children[1].path = P_docs
    /\ Len(response.answer.body.tree.children[1].children) = 1
    /\ response.answer.body.tree.children[1].children[1].type = "file"
    /\ response.answer.body.tree.children[1].children[1].path = P_docs_x_md
    /\ Len(response.answer.body.tree.children[1].children[1].children) = 1

\* C25: for one job shown by JobStatus inside Home, onComplete is called at
\* most once.
C25_OnCompleteAtMostOnce == onCompleteCalls <= 1

\* the first call of onComplete
C25_WitnessFirstCall ==
    /\ onCompleteCalls = 1
    /\ showResults
    /\ treeLoads = 1

\* nothing will send a status request any more: no pollJobStatus call is
\* awaiting its fetch, no interval and no pending startPolling belong to the
\* current effect instance, and no re-render and no effect is due
PollingEnded ==
    /\ polls = <<>>
    /\ ~effectsDue
    /\ ~pollInterval
    /\ ~startPending
    /\ ~(shown /\ homeDirty)
    /\ treeLoads = 0

\* the row of the job JobStatus follows has the status `status`
Followed(status) == \E j \in jobs : j.id = currentJobId /\ j.status = status

\* C26: once a poll has been answered with completed or failed, polling
\* ends on a page the user leaves alone: from some point on no status
\* request is in flight and none is scheduled.
C26_PollingStops == terminalSeen ~> []PollingEnded

\* the same for a job that failed
C26_PollingStopsAfterFailure ==
    (terminalSeen /\ Followed("failed")) ~> []PollingEnded

\* the same when GET /api/tree has no tree to load: Home re-renders once,
\* for setShowResults(true)
C26_PollingStopsWithoutTree ==
    (terminalSeen /\ db.files = {}) ~> []PollingEnded

\* C27: no timer set by an effect instance is pending or running after the
\* instance's cleanup has run.
C27_NoTimerAfterCleanup == lateTimeouts = 0 /\ lateIntervals = 0

\* the cleanup ran after startPolling: the interval it set was cleared
C27_WitnessCleared ==
    /\ ~shown
    /\ ~pollInterval
    /\ lateTimeouts = 0
    /\ lateIntervals = 0
    /\ terminalSeen

(***************************************************************************)
(* C28: results gating                                                     *)
(***************************************************************************)
\* the answer carries analysis data
CarriesAnalysis(answer) == "analysis" \in DOMAIN answer.body

\* the answer is an error: an error status, success false, an error message
IsErrorAnswer(answer) ==
    /\ answer.status \in {400, 404, 500}
    /\ answer.body.success = FALSE
    /\ "error" \in DOMAIN answer.body

\* the job id asked for names a row whose status was completed when the
\* request was answered
AskedForCompleted(asked) ==
    /\ asked.jobId # <<>>
    /\ \E j \in asked.rows : j.id = asked.jobId /\ j.status = "completed"

\* C28: GET /api/analysis/results answers with file and function data only
\* when the job id is given, names a row of the Job table and that row's
\* status is completed at the time of the request; for a missing job id, an
\* unknown job, or a job that is pending, processing or failed, the answer is
\* an error that carries no analysis data. A completed job is answered with
\* every File row and its functions unless the store cannot be reached.
C28_ResultsGating ==
    resultsResponse # NoResponse =>
        LET answer == resultsResponse.answer
        IN /\ CarriesAnalysis(answer) => AskedForCompleted(resultsResponse)
           /\ ~AskedForCompleted(resultsResponse) =>
                  IsErrorAnswer(answer) /\ ~CarriesAnalysis(answer)
           /\ (AskedForCompleted(resultsResponse) /\ resultsResponse.storeUp) =>
                  /\ answer.status = 200
                  /\ {f.path : f \in db.files}
                         = {answer.body.analysis.files[i].path :
                                i \in DOMAIN answer.body.analysis.files}
           /\ resultsResponse.jobId = <<>> => answer.status = 400
           /\ (resultsResponse.storeUp /\ resultsResponse.jobId # <<>>
                 /\ \A j \in resultsResponse.rows : j.id # resultsResponse.jobId)
                  => answer.status = 404

\* a completed job was asked for and answered with files and functions
C28_Witness ==
    /\ resultsResponse # NoResponse
    /\ AskedForCompleted(resultsResponse)
    /\ CarriesAnalysis(resultsResponse.answer)
    /\ resultsResponse.answer.body.analysis.totalFunctions > 0

\* a job that failed was asked for and refused
C28_WitnessFailed ==
    /\ resultsResponse # NoResponse
    /\ \E j \in resultsResponse.rows :
           j.id = resultsResponse.jobId /\ j.status = "failed"
    /\ resultsResponse.answer.status = 400
    /\ resultsResponse.storeUp

\* a job that is being processed was asked for and refused
C28_WitnessProcessing ==
    /\ resultsResponse # NoResponse
    /\ \E j \in resultsResponse.rows :
           j.id = resultsResponse.jobId /\ j.status = "processing"
    /\ resultsResponse.answer.status = 400
    /\ resultsResponse.storeUp

(***************************************************************************)
(* C29: what an error response of the upload handler leaves behind         *)
(***************************************************************************)
\* the handler has answered 400 or 500
AnsweredWithError == UploadAnswered /\ uploadResponse.status \in {400, 500}

\* the request has created no Job row and launched no worker
NothingStarted == job.id = None /\ jobs = {} /\ workers = {}

\* C29: whenever the upload handler answers 400 or 500, whichever step
\* failed, the request has created no Job row and launched no worker.
C29_ErrorMeansNothingStarted == AnsweredWithError => NothingStarted

\* an error response whose failing step comes before prisma.job.create, or is
\* prisma.job.create itself, leaves nothing behind; when launchIngestWorker
\* throws the pending row stays without a worker; when the final unlink
\* rejects the pending row and its running worker stay
C29_ErrorBeforeJobCreation ==
    AnsweredWithError =>
        /\ pc \in {"rejected", "failed", "writeFailed", "createFailed"}
               => NothingStarted
        /\ pc = "launchFailed"
               => /\ jobs = {job}
                  /\ job.status = "pending"
                  /\ workers = {}
        /\ pc = "unlinkFailed"
               => /\ jobs = {job}
                  /\ workers = {launchIngestWorker(job.id, result)}

\* prisma.job.create rejected: 500 and nothing was started
C29_WitnessCreateFailed ==
    /\ pc = "createFailed"
    /\ uploadResponse.status = 500
    /\ NothingStarted

(***************************************************************************)
(* C30: the locator and the noise directories                              *)
(***************************************************************************)
NoiseDirectory(name) == name \in {S_node_modules, S_dist, S_build}

\* the path is a noise directory or lies inside one
InsideNoise(p) == \E i \in 1..Len(split(p)) : NoiseDirectory(split(p)[i])

\* C30: findActualRoot never descends into a directory named node_modules,
\* dist or build: when the extraction directory is not inside such a
\* directory, neither is the directory the locator is looking at, the root it
\* returns, nor the extract path of a launched worker.
C30_StaysOutOfNoise ==
    ~InsideNoise(extractPath) =>
        /\ ~InsideNoise(currentPath)
        /\ result # None => ~InsideNoise(result)
        /\ \A w \in workers : ~InsideNoise(w.extractPath)

\* a pass that descends into node_modules, dist or build
EntersNoise ==
    /\ LocatorPass
    /\ pc' = "locating"
    /\ depth' = depth + 1
    /\ NoiseDirectory(basename(currentPath'))

\* the locator enters node_modules, dist or build only as the single
\* subdirectory of a directory without source files; among several
\* subdirectories it never chooses one of them
C30_NoiseOnlyAsSingleDirectory ==
    [][EntersNoise =>
           /\ Len(Subdirectories) = 1
           /\ ~SourcePresent
           /\ ScoreHere < 3]_vars

\* the locator passed over dist and node_modules and returned a sibling
C30_WitnessSkipped ==
    /\ result # None
    /\ result # extractPath
    /\ ~InsideNoise(result)
    /\ \E i \in 1..Len(readdir(extractPath).entries) :
           NoiseDirectory(readdir(extractPath).entries[i])

====
